---------------------------- MODULE Spec2Model ----------------------------
(***************************************************************************)
(* A model of tsc-transform-kit: the Transformers registry, the            *)
(* TypeScriptSolution build orchestrator (build / watch / consumeBuilder)  *)
(* and the Watch manager (watchConfigFile / stop / directory callbacks),   *)
(* the Transformer dispatcher over a syntax tree and TypeScriptCompiler.   *)
(*                                                                         *)
(* The host compiler (typescript) is the environment: its solution builder *)
(* is modelled by the set of out-of-date projects, its file system by the  *)
(* configuration text on disk and the notifications it has queued.         *)
(***************************************************************************)
EXTENDS Integers, Sequences, FiniteSets, TLC

VARIABLES
  solution,      \* the TypeScriptSolution: whether constructed, its tsconfigPath
  transformers,  \* Transformers.transformers: the registered passes, in order
  custom,        \* the ts.CustomTransformers last materialized
  watchers,      \* Watch.#watchers: path -> handle (an index of handles)
  handles,       \* every ts.FileWatcher the host ever returned to the Watch
  stopped,       \* Watch.#stopped
  watchObj,      \* "none" | "created" | "returned" | "failed": the Watch of watch()
  stack,         \* the consumeBuilder invocations in progress, innermost last
  log,           \* events emitted and host calls made by the current operation
  subscribed,    \* passes whose incrementErrorCounter listener is subscribed
  dirty,         \* host: the projects a fresh solution builder finds out of date
  disk,          \* host: the variant of each configuration file on disk
  pending,       \* host: change notifications queued, <<handle, fileName>>
  budget,        \* what the environment may still do (stops, changes, nested passes, faults)
  listeners,     \* the EventEmitter: the listeners of each event, in subscription order
  cancellation,  \* the ts.CancellationToken given to build() / watch(), and its state
  compiler,      \* TypeScriptCompiler.transformers
  emitResult,    \* what compileOnce() returned
  source,        \* host: the source file handed to the transformers
  delegate,      \* the Transformer whose transform is called
  transformerContext,  \* the TransformerContext of the call
  rewritten,     \* what transform returned, and what was emitted
  classified     \* a call of isOutputFile: its arguments and its result

\* The state of the solution and its watch.
orchestration == <<solution, transformers, custom, watchers, handles, stopped, watchObj,
                   stack, log, subscribed, dirty, disk, pending, budget>>

\* The state of a compilation with transformers.
compilation == <<compiler, emitResult, source, delegate, transformerContext, rewritten>>

vars == <<orchestration, listeners, cancellation, compilation, classified>>

-----------------------------------------------------------------------------
(* Bounds of the model.                                                    *)

MaxTransformers == 3
MaxStops == 2
MaxChanges == 1
MaxNested == 1
MaxFaults == 1

-----------------------------------------------------------------------------
(* Constants of the typescript library the code compares against.          *)

\* ts.ExitStatus; the two spellings of the project-reference-cycle status
\* are two names of the same value.
Success == 0
DiagnosticsPresent_OutputsSkipped == 1
DiagnosticsPresent_OutputsGenerated == 2
InvalidProject_OutputsSkipped == 3
ProjectReferenceCycle_OutputsSkipped == 4
ProjectReferenceCycle_OutputsSkupped == 4
\* A value the enumeration does not define (a later host version's status).
UnknownExitStatus == 5

ExitStatuses == 0 .. UnknownExitStatus

\* ts.WatchDirectoryFlags
WatchDirectoryFlagsNone == 0
WatchDirectoryFlagsRecursive == 1

\* ts.DiagnosticCategory
CategoryWarning == 0
CategoryError == 1

-----------------------------------------------------------------------------
(* Strings, as node's String and path functions compute on them.           *)

Max(S) == CHOOSE x \in S : \A y \in S : y <= x

LastIndexOf(s, c) ==
  LET at == {i \in 1 .. Len(s) : SubSeq(s, i, i) = c}
  IN IF at = {} THEN 0 ELSE Max(at)

startsWith(s, prefix) ==
  Len(prefix) <= Len(s) /\ SubSeq(s, 1, Len(prefix)) = prefix

endsWith(s, suffix) ==
  Len(suffix) <= Len(s) /\ SubSeq(s, Len(s) - Len(suffix) + 1, Len(s)) = suffix

\* path.extname: from the last "." of the last path segment, "" when that
\* segment has none or only starts with one.
extname(path) ==
  LET slash == LastIndexOf(path, "/")
      dot == LastIndexOf(path, ".")
  IN IF dot <= slash + 1 THEN "" ELSE SubSeq(path, dot, Len(path))

\* path.join(dir, ''): the normalized dir; configuration paths are normalized
\* by the host and carry no trailing separator.
join(dir, rest) == IF rest = "" THEN dir ELSE dir \o "/" \o rest

\* outFile.replace(/\.[^.]*$/i, '.d.ts')
replaceExtensionWithDts(outFile) ==
  LET dot == LastIndexOf(outFile, ".")
  IN IF dot = 0 THEN outFile ELSE SubSeq(outFile, 1, dot - 1) \o ".d.ts"

RECURSIVE BitAnd(_, _)
BitAnd(a, b) ==
  IF a = 0 \/ b = 0 THEN 0
  ELSE (a % 2) * (b % 2) + 2 * BitAnd(a \div 2, b \div 2)

Range(f) == {f[x] : x \in DOMAIN f}

-----------------------------------------------------------------------------
(* The projects and files of the modelled solution.  The root project      *)
(* /p references the project /q, so the host plans /q before /p.           *)

RootConfig == "/p/tsconfig.json"
RefConfig == "/q/tsconfig.json"
Units == {RootConfig, RefConfig}
BuildOrder == <<RefConfig, RootConfig>>

NewSource == "/p/n.ts"

\* A path that names no file.
Missing == "/one/tsconfig.json"

\* An option the configuration does not set (undefined) is "".
NoOptions ==
  [noEmit |-> FALSE, allowJs |-> FALSE, resolveJsonModule |-> FALSE,
   outFile |-> "", out |-> "", outDir |-> "", declarationDir |-> "",
   declaration |-> FALSE]

\* What parsing gives when the configuration cannot be read.
NoConfig == [ok |-> FALSE]

\* The ts.ParsedCommandLine of each variant of each configuration file.
ParsedCommandLine(path, variant, files) ==
  IF variant = "bad" THEN NoConfig
  ELSE IF path = RootConfig /\ variant = "v1" THEN
    [ok |-> TRUE,
     options |-> [NoOptions EXCEPT !.outDir = "/p/dist", !.declaration = TRUE],
     wildcardDirectories |-> << <<"/p", WatchDirectoryFlagsRecursive>> >>,
     fileNames |-> <<"/p/a.ts">>
                   \o (IF NewSource \in files THEN <<NewSource>> ELSE <<>>)]
  ELSE IF path = RootConfig /\ variant = "v3" THEN
    [ok |-> TRUE,
     options |-> [NoOptions EXCEPT !.declaration = TRUE],
     wildcardDirectories |-> << <<"/p", WatchDirectoryFlagsRecursive>> >>,
     fileNames |-> <<"/p/a.ts">>]
  ELSE IF path = RootConfig /\ variant = "v4" THEN
    [ok |-> TRUE,
     options |-> [NoOptions EXCEPT !.outFile = "/p/bundle.js", !.declaration = TRUE],
     wildcardDirectories |-> << <<"/p", WatchDirectoryFlagsRecursive>> >>,
     fileNames |-> <<"/p/a.ts">>]
  ELSE IF path = RootConfig THEN
    [ok |-> TRUE,
     options |-> [NoOptions EXCEPT !.allowJs = TRUE, !.resolveJsonModule = TRUE],
     wildcardDirectories |-> << <<"/p/lib", WatchDirectoryFlagsNone>> >>,
     fileNames |-> <<"/p/lib/s.js">>]
  ELSE
    [ok |-> TRUE,
     options |-> [NoOptions EXCEPT !.declarationDir = "/q/types", !.declaration = TRUE],
     wildcardDirectories |-> << <<"/q", WatchDirectoryFlagsRecursive>> >>,
     fileNames |-> <<"/q/b.ts">>]

Variants(path) == IF path = RootConfig THEN {"v1", "v2", "bad"} ELSE {"v1", "bad"}

\* parseConfiguration(path, system): what the host parses from the disk now.
parseConfiguration(path, d) == ParsedCommandLine(path, d.text[path], d.files)

\* existsSync(tsconfigPath)
\* Variant: every path is taken to exist.
existsSyncAlways(path, d) == TRUE

existsSync(path, d) == path \in DOMAIN d.text

-----------------------------------------------------------------------------
(* watch.ts: the filters of a directory watch.                             *)

TS_SOURCE_EXTENSIONS == {".ts", ".tsx"}

\* Variant: the options of the configuration are not consulted.
isSupportedSourceFileTs(path, config) == extname(path) \in TS_SOURCE_EXTENSIONS

isSupportedSourceFile(path, config) ==
  LET supportedExts ==
        TS_SOURCE_EXTENSIONS
          \cup (IF config.options.allowJs THEN {".js", ".jsx"} ELSE {})
          \cup (IF config.options.resolveJsonModule THEN {".json"} ELSE {})
  IN extname(path) \in supportedExts

\* Variant: nothing is an output file.
isOutputFileNever(path, config) == FALSE

isOutputFile(path, config) ==
  LET outFile == IF config.options.outFile # "" THEN config.options.outFile
                 ELSE config.options.out
  IN IF config.options.noEmit THEN FALSE
     ELSE IF ~endsWith(path, ".d.ts") /\ (endsWith(path, ".ts") \/ endsWith(path, ".tsx"))
       THEN FALSE
     ELSE IF outFile # "" /\ (outFile = path \/ replaceExtensionWithDts(outFile) = path)
       THEN TRUE
     ELSE IF config.options.declarationDir # ""
             /\ startsWith(path, join(config.options.declarationDir, ""))
       THEN TRUE
     ELSE IF config.options.outDir # "" /\ startsWith(path, join(config.options.outDir, ""))
       THEN TRUE
     ELSE FALSE

\* No call of isOutputFile was made.
NotClassified == [state |-> "none"]

\* isOutputFile(path, config) is called.
Classify ==
  /\ classified.state = "asked"
  /\ classified' = [classified EXCEPT
                      !.state = "answered",
                      !.result = isOutputFile(classified.path, classified.config)]
  /\ UNCHANGED <<orchestration, listeners, cancellation, compilation>>

\* The callback of a directory watch: does it go on to #performBuild?
DirectoryCallbackBuilds(h, fileName) ==
  \/ fileName = h.path
  \/ /\ isSupportedSourceFile(fileName, h.config)
     /\ ~isOutputFile(fileName, h.config)

-----------------------------------------------------------------------------
(* watch.ts: the handle table.  A table state is [watchers, handles].      *)

NewWatcher(st, path, kind, config, recursive) ==
  [watchers |-> st.watchers @@ (path :> (Len(st.handles) + 1)),
   handles |-> Append(st.handles,
                 [path |-> path, kind |-> kind, config |-> config,
                  recursive |-> recursive, closed |-> 0])]

RECURSIVE watchWildCardDirectoriesFrom(_, _, _)
watchWildCardDirectoriesFrom(st, config, i) ==
  IF i > Len(config.wildcardDirectories) THEN st
  ELSE LET path == config.wildcardDirectories[i][1]
           flags == config.wildcardDirectories[i][2]
           next == IF path \in DOMAIN st.watchers THEN st
                   ELSE NewWatcher(st, path, "dir", config,
                                   BitAnd(flags, WatchDirectoryFlagsRecursive) # 0)
       IN watchWildCardDirectoriesFrom(next, config, i + 1)

\* Variant: the first wildcard directory is watched anew on every call.
watchWildCardDirectoriesAnew(st, config) ==
  NewWatcher(st, config.wildcardDirectories[1][1], "dir", config,
             BitAnd(config.wildcardDirectories[1][2], WatchDirectoryFlagsRecursive) # 0)

watchWildCardDirectories(st, config) == watchWildCardDirectoriesFrom(st, config, 1)

RECURSIVE watchInputFilesFrom(_, _, _)
watchInputFilesFrom(st, config, i) ==
  IF i > Len(config.fileNames) THEN st
  ELSE LET path == config.fileNames[i]
           next == IF path \in DOMAIN st.watchers THEN st
                   ELSE NewWatcher(st, path, "file", NoConfig, FALSE)
       IN watchInputFilesFrom(next, config, i + 1)

\* Variant: the input files are not watched.
watchInputFilesNone(st, config) == st

watchInputFiles(st, config) == watchInputFilesFrom(st, config, 1)

\* Variant: the configuration file is watched anew on every call.
watchConfigFileAlways(st, path, d) ==
  LET config == parseConfiguration(path, d)
      first == NewWatcher(st, path, "file", NoConfig, FALSE)
  IN IF config.ok
     THEN watchInputFiles(watchWildCardDirectories(first, config), config)
     ELSE first

watchConfigFile(st, path, d) ==
  LET config == parseConfiguration(path, d)
      first == IF path \in DOMAIN st.watchers THEN st
               ELSE NewWatcher(st, path, "file", NoConfig, FALSE)
  IN IF config.ok
     THEN watchInputFiles(watchWildCardDirectories(first, config), config)
     ELSE first

\* Variant: stop() closes the handles of the table and keeps the table.
stopWatchersKeep(st) ==
  [watchers |-> st.watchers,
   handles |-> [i \in DOMAIN st.handles |->
                  IF i \in Range(st.watchers)
                  THEN [st.handles[i] EXCEPT !.closed = @ + 1]
                  ELSE st.handles[i]]]

\* stop(): every handle of the table is closed and removed.
stopWatchers(st) ==
  [watchers |-> << >>,
   handles |-> [i \in DOMAIN st.handles |->
                  IF i \in Range(st.watchers)
                  THEN [st.handles[i] EXCEPT !.closed = @ + 1]
                  ELSE st.handles[i]]]

-----------------------------------------------------------------------------
(* transformers.ts: the registry.  A pass is identified by the set of      *)
(* phases in which its visit rewrites anything (in every other phase it    *)
(* returns the node unchanged, as the tests' UpcasingTransformer does).    *)

Phases == {"before", "after", "afterDeclarations"}
Passes == SUBSET Phases

\* transformers.map(tx => customTransformerFactory(tx, phase))
FactoriesFor(txs, phase) == [i \in DOMAIN txs |-> [delegate |-> txs[i], phase |-> phase]]

forInvalidatedProject(txs) ==
  [before |-> FactoriesFor(txs, "before"),
   after |-> FactoriesFor(txs, "after"),
   afterDeclarations |-> FactoriesFor(txs, "afterDeclarations")]

addTransformer(tx) ==
  /\ Len(transformers) < MaxTransformers
  /\ transformers' = Append(transformers, tx)
  /\ UNCHANGED <<compilation, listeners, cancellation, classified,
                 solution, custom, watchers, handles, stopped, watchObj, stack, log,
                 subscribed, dirty, disk, pending, budget>>

\* invalidatedProject.done(..., this.transformers.forInvalidatedProject(...))
Materialize ==
  /\ custom' = forInvalidatedProject(transformers)
  /\ UNCHANGED <<compilation, listeners, cancellation, classified,
                 solution, transformers, watchers, handles, stopped, watchObj, stack, log,
                 subscribed, dirty, disk, pending, budget>>

-----------------------------------------------------------------------------
(* typescript-solution.ts: consumeBuilder, one frame per invocation.       *)

Entry(ev, p, u, x) == [ev |-> ev, p |-> p, u |-> u, x |-> x]

NewFrame(pass, watch, origin) ==
  [pass |-> pass, watch |-> watch, origin |-> origin, pc |-> "start",
   cont |-> "", inTry |-> FALSE, unit |-> "", yielded |-> {}, exc |-> FALSE,
   errorCount |-> 0, sub |-> FALSE, reports |-> << >>,
   token |-> cancellation.token, calls |-> << >>]

Top == stack[Len(stack)]
At(pc) == stack # << >> /\ Top.pc = pc
SetTop(f) == [stack EXCEPT ![Len(stack)] = f]

\* The environment departs from a clean build (a diagnostic, an exit status
\* other than Success, an exception) at most MaxFaults times in a run.
Fault ==
  /\ budget.faults > 0
  /\ budget' = [budget EXCEPT !.faults = @ - 1]

\* Variant: the host's calls are made without a token.
forwardedTokenNone(f) == "none"

\* The cancellationToken argument of getNextInvalidatedProject and of done.
forwardedToken(f) == f.token

\* Frame f after a call of the host's `op` with the forwarded token.
Called(f, op) == [f EXCEPT !.calls = Append(@, [op |-> op, token |-> forwardedToken(f)])]

\* this.emit(event, ...): the event is delivered and the listeners run.
Listening(f, cont, inTry) == [f EXCEPT !.pc = "listen", !.cont = cont, !.inTry = inTry]

NextPass == 1 + Cardinality({i \in DOMAIN log : log[i].ev = "Enter"})

\* Variant: a status without an arm of its own is reported as a skip.
OutcomeEventLenient(exitStatus) ==
  IF exitStatus \in {Success, DiagnosticsPresent_OutputsGenerated}
  THEN "OutputsGenerated" ELSE "OutputsSkipped"

\* The switch of consumeBuilder: the event of an exit status, "" when the
\* status is unsupported.
OutcomeEvent(exitStatus) ==
  IF exitStatus = Success THEN "OutputsGenerated"
  ELSE IF exitStatus = DiagnosticsPresent_OutputsGenerated THEN "OutputsGenerated"
  ELSE IF exitStatus = DiagnosticsPresent_OutputsSkipped THEN "OutputsSkipped"
  ELSE IF exitStatus = InvalidProject_OutputsSkipped THEN "OutputsSkipped"
  ELSE IF exitStatus = ProjectReferenceCycle_OutputsSkipped
          \/ exitStatus = ProjectReferenceCycle_OutputsSkupped THEN "OutputsSkipped"
  ELSE ""

\* Variant: every skipped unit is reported as skipped for its diagnostics.
OutcomeReasonMerged(exitStatus) ==
  IF OutcomeEvent(exitStatus) = "OutputsSkipped" THEN "diagnosticsPresent" ELSE ""

OutcomeReason(exitStatus) ==
  IF exitStatus = DiagnosticsPresent_OutputsSkipped THEN "diagnosticsPresent"
  ELSE IF exitStatus = InvalidProject_OutputsSkipped THEN "invalidProject"
  ELSE IF exitStatus = ProjectReferenceCycle_OutputsSkipped
          \/ exitStatus = ProjectReferenceCycle_OutputsSkupped THEN "projectReferenceCycle"
  ELSE ""

\* ts.ExitStatus[exitStatus]: the enum's reverse mapping, in which the later
\* spelling of the value 4 replaces the earlier one and a value the enum
\* does not hold has no name.
ExitStatusName(exitStatus) ==
  IF exitStatus = Success THEN "Success"
  ELSE IF exitStatus = DiagnosticsPresent_OutputsSkipped
    THEN "DiagnosticsPresent_OutputsSkipped"
  ELSE IF exitStatus = DiagnosticsPresent_OutputsGenerated
    THEN "DiagnosticsPresent_OutputsGenerated"
  ELSE IF exitStatus = InvalidProject_OutputsSkipped THEN "InvalidProject_OutputsSkipped"
  ELSE IF exitStatus = ProjectReferenceCycle_OutputsSkupped
    THEN "ProjectReferenceCycle_OutputsSkupped"
  ELSE "undefined"

\* `Unsupported exitStatus: ${ts.ExitStatus[exitStatus]}`
UnsupportedMessage(exitStatus) == "Unsupported exitStatus: " \o ExitStatusName(exitStatus)

\* builder.getNextInvalidatedProject(): the first out-of-date project, in
\* build order, that this builder has not handed out yet ("" when none).
RECURSIVE NextInvalidatedFrom(_, _, _)
NextInvalidatedFrom(i, outOfDate, yielded) ==
  IF i > Len(BuildOrder) THEN ""
  ELSE IF BuildOrder[i] \in outOfDate /\ BuildOrder[i] \notin yielded THEN BuildOrder[i]
  ELSE NextInvalidatedFrom(i + 1, outOfDate, yielded)

\* Variant: the planner never has a unit to hand out.
getNextInvalidatedProjectNone(f) == ""

getNextInvalidatedProject(f) == NextInvalidatedFrom(1, dirty, f.yielded)

\* Variant: the solution events do not depend on the mode.
InWatchModeAlways(f) == TRUE

\* watch != null
InWatchMode(f) == f.watch

\* if (watch != null) emit(BeforeSolution)
BeforeSolution ==
  /\ At("start")
  /\ IF InWatchMode(Top)
     THEN /\ log' = Append(log, Entry("BeforeSolution", Top.pass, "", ""))
          /\ stack' = SetTop(Listening(Top, "subscribe", FALSE))
     ELSE /\ log' = log
          /\ stack' = SetTop([Top EXCEPT !.pc = "next"])
  /\ UNCHANGED <<compilation, listeners, cancellation, classified,
                 solution, transformers, custom, watchers, handles, stopped, watchObj,
                 subscribed, dirty, disk, pending, budget>>

\* this.on(BuildEvent.Diagnostic, incrementErrorCounter)
Subscribe ==
  /\ At("subscribe")
  /\ stack' = SetTop([Top EXCEPT !.pc = "next", !.sub = TRUE])
  /\ subscribed' = subscribed + 1
  /\ UNCHANGED <<compilation, listeners, cancellation, classified,
                 solution, transformers, custom, watchers, handles, stopped, watchObj, log,
                 dirty, disk, pending, budget>>

\* The loop head: the next unit and its BeforeProject, or the end of the
\* loop and, in watch mode, AfterSolution.
NextProject ==
  /\ At("next")
  /\ LET u == getNextInvalidatedProject(Top)
     IN IF u # ""
        THEN /\ log' = log \o <<Entry("Yield", Top.pass, u, ""),
                                Entry("BeforeProject", Top.pass, u, "")>>
             /\ stack' = SetTop(Listening(
                  [Called(Top, "next") EXCEPT
                     !.unit = u, !.yielded = @ \cup {u}, !.exc = FALSE],
                  "done", FALSE))
        ELSE IF InWatchMode(Top)
        THEN /\ log' = Append(log, Entry("AfterSolution", Top.pass, "", Top.errorCount))
             /\ stack' = SetTop(Listening(Called(Top, "next"), "unsubscribe", FALSE))
        ELSE /\ log' = Append(log, Entry("Returned", Top.pass, "", ""))
             /\ stack' = SetTop([Called(Top, "next") EXCEPT !.pc = "return"])
  /\ UNCHANGED <<compilation, listeners, cancellation, classified,
                 solution, transformers, custom, watchers, handles, stopped, watchObj,
                 subscribed, dirty, disk, pending, budget>>

\* Variant: only the diagnostics of category Error become events.
reportDiagnosticErrors(f, category) ==
  IF category = CategoryError
  THEN <<Entry("Diagnostic", f.pass, f.unit, category)>> ELSE << >>

\* #reportDiagnostic = (diag) => this.emit(BuildEvent.Diagnostic, diag)
reportDiagnostic(f, category) == <<Entry("Diagnostic", f.pass, f.unit, category)>>

\* Inside done(): the host reports a diagnostic through #reportDiagnostic,
\* and every subscribed incrementErrorCounter counts it when it is an error.
DoneReports(category) ==
  /\ At("done")
  /\ Fault
  /\ log' = log \o reportDiagnostic(Top, category)
  /\ LET counted == [i \in DOMAIN stack |->
                       IF stack[i].sub /\ category = CategoryError
                       THEN [stack[i] EXCEPT !.errorCount = @ + 1]
                       ELSE stack[i]]
         f == [counted[Len(stack)] EXCEPT
                 !.reports = Append(@, [u |-> Top.unit, category |-> category])]
     IN stack' = [counted EXCEPT ![Len(stack)] =
                    Listening(f, "done", TRUE)]
  /\ UNCHANGED <<compilation, listeners, cancellation, classified,
                 solution, transformers, custom, watchers, handles, stopped, watchObj,
                 subscribed, dirty, disk, pending>>

\* done() returns an exit status; the switch emits its event or throws.
DoneSwitch(exitStatus) ==
  /\ At("done")
  /\ IF exitStatus = Success THEN budget' = budget ELSE Fault
  /\ dirty' = IF exitStatus \in {Success, DiagnosticsPresent_OutputsGenerated}
              THEN dirty \ {Top.unit} ELSE dirty
  /\ IF OutcomeEvent(exitStatus) # ""
     THEN /\ log' = log \o <<Entry("Done", Top.pass, Top.unit, exitStatus),
                             Entry(OutcomeEvent(exitStatus), Top.pass, Top.unit,
                                   OutcomeReason(exitStatus))>>
          /\ stack' = SetTop(Listening(Called(Top, "done"), "finally", TRUE))
     ELSE /\ log' = log \o <<Entry("Done", Top.pass, Top.unit, exitStatus),
                             Entry("Unsupported", Top.pass, Top.unit, exitStatus),
                             Entry("Error", Top.pass, Top.unit,
                                   UnsupportedMessage(exitStatus))>>
          /\ stack' = SetTop([Called(Top, "done") EXCEPT !.pc = "finally", !.exc = TRUE])
  /\ custom' = forInvalidatedProject(transformers)
  /\ UNCHANGED <<compilation, listeners, cancellation, classified,
                 solution, transformers, watchers, handles, stopped, watchObj,
                 subscribed, disk>>

\* done() with the files it writes left out of the picture: no watcher is
\* told of them.
DoneReturns(exitStatus) ==
  /\ DoneSwitch(exitStatus)
  /\ pending' = pending

\* done() throws: a pass's visit threw while the unit was emitted.
DoneThrows ==
  /\ At("done")
  /\ Fault
  /\ log' = Append(log, Entry("DoneThrew", Top.pass, Top.unit, ""))
  /\ stack' = SetTop([Called(Top, "done") EXCEPT !.pc = "finally", !.exc = TRUE])
  /\ custom' = forInvalidatedProject(transformers)
  /\ UNCHANGED <<compilation, listeners, cancellation, classified,
                 solution, transformers, watchers, handles, stopped, watchObj,
                 subscribed, dirty, disk, pending>>

\* The caller requests cancellation on the token it gave.
Cancel ==
  /\ cancellation.token # "none"
  /\ ~cancellation.requested
  /\ cancellation' = [cancellation EXCEPT !.requested = TRUE]
  /\ UNCHANGED <<orchestration, listeners, classified, compilation>>

\* The host sees the cancellation only through the token a call hands it.
Observes(f) == forwardedToken(f) # "none" /\ cancellation.requested

\* getNextInvalidatedProject(cancellationToken) observes the cancellation
\* and throws: the exception leaves the loop head.
NextCancelled ==
  /\ At("next")
  /\ Observes(Top)
  /\ log' = Append(log, Entry("Cancelled", Top.pass, "", "next"))
  /\ stack' = SetTop([Called(Top, "next") EXCEPT !.pc = "thrown", !.exc = TRUE,
                                                   !.inTry = FALSE])
  /\ UNCHANGED <<compilation, listeners, cancellation, classified,
                 solution, transformers, custom, watchers, handles, stopped, watchObj,
                 subscribed, dirty, disk, pending, budget>>

\* done(cancellationToken, ...) observes the cancellation and throws.
DoneCancelled ==
  /\ At("done")
  /\ Observes(Top)
  /\ log' = Append(log, Entry("Cancelled", Top.pass, Top.unit, "done"))
  /\ stack' = SetTop([Called(Top, "done") EXCEPT !.pc = "finally", !.exc = TRUE])
  /\ custom' = forInvalidatedProject(transformers)
  /\ UNCHANGED <<compilation, listeners, cancellation, classified,
                 solution, transformers, watchers, handles, stopped, watchObj,
                 subscribed, dirty, disk, pending, budget>>

\* Variant: the refresh sits at the end of the try block, not in finally.
FinallyRefreshesUnlessThrown(f) == f.watch /\ ~f.exc

\* if (watch != null) { watch.watchConfigFile(invalidatedProject.project); }
FinallyRefreshes(f) == f.watch

\* Variant: the finally block refreshes but emits nothing.
FinallyEntriesNoEmit(f) ==
  IF FinallyRefreshes(f) THEN <<Entry("Refresh", f.pass, f.unit, "")>> ELSE << >>

\* What the finally block does, in order: the refresh, then the emit.
FinallyEntries(f) ==
  (IF FinallyRefreshes(f) THEN <<Entry("Refresh", f.pass, f.unit, "")>> ELSE << >>)
    \o <<Entry("AfterProject", f.pass, f.unit, "")>>

\* Variant: the finally block swallows the exception.
AfterFinallySwallows(f) == "next"

\* Where control goes after the finally block: an exception raised in the
\* try block goes on propagating, otherwise the loop goes on.
AfterFinally(f) == IF f.exc THEN "thrown" ELSE "next"

\* finally { if (watch != null) watch.watchConfigFile(project); emit(AfterProject) }
Finally ==
  /\ At("finally")
  /\ LET st == IF FinallyRefreshes(Top)
               THEN watchConfigFile([watchers |-> watchers, handles |-> handles],
                                    Top.unit, disk)
               ELSE [watchers |-> watchers, handles |-> handles]
     IN /\ watchers' = st.watchers
        /\ handles' = st.handles
  /\ log' = log \o FinallyEntries(Top)
  /\ stack' = SetTop(Listening(Top, AfterFinally(Top), FALSE))
  /\ UNCHANGED <<compilation, listeners, cancellation, classified,
                 solution, transformers, custom, stopped, watchObj, subscribed, dirty, disk,
                 pending, budget>>

\* this.removeListener(BuildEvent.Diagnostic, incrementErrorCounter); return
Unsubscribe ==
  /\ At("unsubscribe")
  /\ subscribed' = subscribed - 1
  /\ log' = Append(log, Entry("Returned", Top.pass, "", ""))
  /\ stack' = SetTop([Top EXCEPT !.pc = "return", !.sub = FALSE])
  /\ UNCHANGED <<compilation, listeners, cancellation, classified,
                 solution, transformers, custom, watchers, handles, stopped, watchObj,
                 dirty, disk, pending, budget>>

\* An emit (or a rethrow) raised: inside the try the finally block runs
\* first, elsewhere the exception leaves consumeBuilder.
Propagate ==
  /\ At("thrown")
  /\ IF Top.inTry
     THEN /\ stack' = SetTop([Top EXCEPT !.pc = "finally", !.exc = TRUE, !.inTry = FALSE])
          /\ log' = log
     ELSE /\ stack' = SetTop([Top EXCEPT !.pc = "raise"])
          /\ log' = Append(log, Entry("Threw", Top.pass, "", ""))
  /\ UNCHANGED <<compilation, listeners, cancellation, classified,
                 solution, transformers, custom, watchers, handles, stopped, watchObj,
                 subscribed, dirty, disk, pending, budget>>

\* consumeBuilder returns: to the listener that started it, or to the
\* caller of build() / watch() or the host's event loop.
Return ==
  /\ At("return")
  /\ stack' = SubSeq(stack, 1, Len(stack) - 1)
  /\ IF Len(stack) = 1
     THEN /\ log' = << >>
          /\ watchObj' = IF Top.origin = "watch" THEN "returned" ELSE watchObj
     ELSE UNCHANGED <<log, watchObj>>
  /\ UNCHANGED <<compilation, listeners, cancellation, classified,
                 solution, transformers, custom, watchers, handles, stopped, subscribed,
                 dirty, disk, pending, budget>>

\* consumeBuilder throws: into the emit of the listener that started it, or
\* out of build() / watch() (no handle is returned) or the host's callback.
Raise ==
  /\ At("raise")
  /\ IF Len(stack) = 1
     THEN /\ stack' = << >>
          /\ log' = << >>
          /\ watchObj' = IF Top.origin = "watch" THEN "failed" ELSE watchObj
     ELSE /\ stack' = [SubSeq(stack, 1, Len(stack) - 1) EXCEPT
                         ![Len(stack) - 1] = [@ EXCEPT !.pc = "thrown"]]
          /\ UNCHANGED <<log, watchObj>>
  /\ UNCHANGED <<compilation, listeners, cancellation, classified,
                 solution, transformers, custom, watchers, handles, stopped, subscribed,
                 dirty, disk, pending, budget>>

-----------------------------------------------------------------------------
(* The host's file system: changes and the notifications they queue.       *)

Files ==
  {"/p", "/p/a.ts", NewSource, "/p/notes.md", "/p/dist/a.js", "/p/dist/a.d.ts",
   "/p/lib/u.js", "/p/lib/d.json", "/q/b.ts", "/q/types/b.d.ts"}

dirname(path) == SubSeq(path, 1, LastIndexOf(path, "/") - 1)

\* Does the host notify watcher h of a change to fileName?
Covers(h, fileName) ==
  /\ h.closed = 0
  /\ IF h.kind = "file" THEN h.path = fileName
     ELSE \/ fileName = h.path
          \/ dirname(fileName) = h.path
          \/ h.recursive /\ startsWith(fileName, h.path \o "/")

IsInputOf(fileName, u, d) ==
  LET config == parseConfiguration(u, d)
  IN config.ok /\ fileName \in Range(config.fileNames)

\* A file is written (a configuration file: with the text of a variant).
Change(fileName, variant) ==
  /\ stack = << >>
  /\ budget.changes > 0
  /\ budget' = [budget EXCEPT !.changes = @ - 1]
  /\ disk' = IF fileName \in Units THEN [disk EXCEPT !.text[fileName] = variant]
             ELSE IF fileName = NewSource THEN [disk EXCEPT !.files = @ \cup {fileName}]
             ELSE disk
  /\ dirty' = dirty \cup {u \in Units : fileName = u \/ IsInputOf(fileName, u, disk')}
  /\ pending' = pending \cup {<<h, fileName>> : h \in {i \in DOMAIN handles :
                                                        Covers(handles[i], fileName)}}
  /\ UNCHANGED <<compilation, listeners, cancellation, classified,
                 solution, transformers, custom, watchers, handles, stopped, watchObj, stack,
                 log, subscribed>>

\* The file name of path without its extension.
Stem(path) ==
  LET name == SubSeq(path, LastIndexOf(path, "/") + 1, Len(path))
      dot == LastIndexOf(name, ".")
  IN IF dot <= 1 THEN name ELSE SubSeq(name, 1, dot - 1)

\* The files the host writes when done() emits unit u under config: for
\* each input its .js (in outDir, else next to it) and, when declarations
\* are emitted, its .d.ts (in declarationDir, else where the .js goes); or
\* the one outFile and its .d.ts; and the build info (build() and watch()
\* ask for an incremental build).  An input is never written.
OutputFilesOf(u, config) ==
  IF ~config.ok THEN {}
  ELSE IF config.options.noEmit THEN {}
  ELSE LET o == config.options
           outFile == IF o.outFile # "" THEN o.outFile ELSE o.out
           jsDir(f) == IF o.outDir # "" THEN o.outDir ELSE dirname(f)
           dtsDir(f) == IF o.declarationDir # "" THEN o.declarationDir ELSE jsDir(f)
           perInput(f) ==
             {jsDir(f) \o "/" \o Stem(f) \o ".js"}
               \cup (IF o.declaration THEN {dtsDir(f) \o "/" \o Stem(f) \o ".d.ts"}
                     ELSE {})
           bundle ==
             {outFile, dirname(outFile) \o "/" \o Stem(outFile) \o ".tsbuildinfo"}
               \cup (IF o.declaration
                     THEN {dirname(outFile) \o "/" \o Stem(outFile) \o ".d.ts"}
                     ELSE {})
           buildInfo ==
             (IF o.outDir # "" THEN o.outDir ELSE dirname(u)) \o "/tsconfig.tsbuildinfo"
       IN (IF outFile # "" THEN bundle
           ELSE UNION {perInput(f) : f \in Range(config.fileNames)} \cup {buildInfo})
            \ Range(config.fileNames)

\* The exit statuses with which done() has written the unit's files.
WritesOutputs(exitStatus) ==
  exitStatus \in {Success, DiagnosticsPresent_OutputsGenerated}

\* done() with the files it writes: the host queues a notification for
\* every open watcher that covers one of them.
DoneEmits(exitStatus) ==
  /\ DoneSwitch(exitStatus)
  /\ LET written == IF WritesOutputs(exitStatus)
                    THEN OutputFilesOf(Top.unit, parseConfiguration(Top.unit, disk))
                    ELSE {}
     IN pending' = pending \cup
          {n \in (DOMAIN handles) \X written : Covers(handles[n[1]], n[2])}

-----------------------------------------------------------------------------
(* watch.ts: the callbacks the Watch hands to the host.                    *)

\* Variant: #performBuild without its guard.
performBuildAlways == TRUE

\* #performBuild = () => { if (this.#stopped) { return; } callback(this); }
performBuild == ~stopped

\* The callback of watcher h, told of fileName: does consumeBuilder start?
CallbackBuilds(h, fileName) ==
  /\ \/ handles[h].kind = "file"
     \/ DirectoryCallbackBuilds(handles[h], fileName)
  /\ performBuild

NotifyEntry(n) ==
  Entry("Notify", 0, n[2], [h |-> n[1], stopped |-> stopped, dirty |-> dirty])

\* The host's event loop delivers a queued notification.
Deliver(n) ==
  /\ stack = << >>
  /\ n \in pending
  /\ pending' = pending \ {n}
  /\ IF CallbackBuilds(n[1], n[2])
     THEN /\ log' = <<NotifyEntry(n), Entry("Enter", 1, "", "notify")>>
          /\ stack' = <<NewFrame(1, TRUE, "notify")>>
     ELSE /\ log' = <<NotifyEntry(n)>>
          /\ stack' = <<[NewFrame(0, TRUE, "ignored") EXCEPT !.pc = "return"]>>
  /\ UNCHANGED <<compilation, listeners, cancellation, classified,
                 solution, transformers, custom, watchers, handles, stopped, watchObj,
                 subscribed, dirty, disk, budget>>

-----------------------------------------------------------------------------
(* The caller: build(), watch(), stop().                                   *)

\* new TypeScriptSolution(tsconfigPath): throws when the path names no file.
Construct(path) ==
  /\ solution.state = "none"
  /\ solution' = IF existsSync(path, disk)
                 THEN [state |-> "constructed", path |-> path, error |-> ""]
                 ELSE [state |-> "failed", path |-> path,
                       error |-> path \o " does not exist!"]
  /\ UNCHANGED <<compilation, listeners, cancellation, classified, transformers, custom, watchers,
                 handles, stopped, watchObj, stack, log, subscribed, dirty, disk, pending, budget>>

Build ==
  /\ solution.state = "constructed"
  /\ stack = << >>
  /\ log' = <<Entry("Enter", 1, "", "build")>>
  /\ stack' = <<NewFrame(1, FALSE, "build")>>
  /\ UNCHANGED <<compilation, listeners, cancellation, classified,
                 solution, transformers, custom, watchers, handles, stopped, watchObj,
                 subscribed, dirty, disk, pending, budget>>

\* watch(): new Watch(...); watch.watchConfigFile(this.tsconfigPath);
\* this.consumeBuilder(createBuilder(), cancellationToken, watch)
CallWatch ==
  /\ solution.state = "constructed"
  /\ stack = << >>
  /\ watchObj = "none"
  /\ watchObj' = "created"
  /\ LET st == watchConfigFile([watchers |-> << >>, handles |-> << >>], RootConfig, disk)
     IN /\ watchers' = st.watchers
        /\ handles' = st.handles
  /\ stopped' = FALSE
  /\ log' = <<Entry("Refresh", 0, RootConfig, ""), Entry("Enter", 1, "", "watch")>>
  /\ stack' = <<NewFrame(1, TRUE, "watch")>>
  /\ UNCHANGED <<compilation, listeners, cancellation, classified,
                 solution, transformers, custom, subscribed, dirty, disk, pending, budget>>

\* stop() on the handle watch() returned.
StopWatch ==
  /\ watchObj = "returned"
  /\ budget.stops > 0
  /\ budget' = [budget EXCEPT !.stops = @ - 1]
  /\ stopped' = TRUE
  /\ LET st == stopWatchers([watchers |-> watchers, handles |-> handles])
     IN /\ watchers' = st.watchers
        /\ handles' = st.handles

Stop ==
  /\ stack = << >>
  /\ StopWatch
  /\ UNCHANGED <<compilation, listeners, cancellation, classified,
                 solution, transformers, custom, watchObj, stack, log, subscribed, dirty,
                 disk, pending>>

-----------------------------------------------------------------------------
(* The listeners of an event, run by emit before it returns.               *)

\* The events of BuildEvent.
BuildEvents ==
  {"BeforeSolution", "AfterSolution", "BeforeProject", "AfterProject", "Diagnostic",
   "OutputsGenerated", "OutputsSkipped"}

MaxListeners == 2

\* What a subscribed listener does when it is called.
ListenerBehaviours == {"returns", "throws"}

\* on(event, listener): this.eventEmitter.on(event, listener)
On(event, behaviour) ==
  /\ solution.state = "constructed"
  /\ stack = << >>
  /\ Len(listeners) < MaxListeners
  /\ listeners' = Append(listeners, [id |-> Len(listeners) + 1, event |-> event,
                                     behaviour |-> behaviour])
  /\ UNCHANGED <<orchestration, cancellation, classified, compilation>>

\* Variant: the listener subscribed last is called first.
listenersOfReversed(event) ==
  LET ls == SelectSeq(listeners, LAMBDA l : l.event = event)
  IN [i \in DOMAIN ls |-> ls[Len(ls) + 1 - i]]

\* The listeners eventEmitter.emit(event, ...) calls, in call order.
listenersOf(event) == SelectSeq(listeners, LAMBDA l : l.event = event)

\* The emit in progress in frame f: the last event the pass recorded.
Emission(f) == Max({i \in DOMAIN log : log[i].p = f.pass /\ log[i].ev \in BuildEvents})

\* The listeners the emit in progress has still to call.
Awaiting(f) ==
  LET ls == listenersOf(log[Emission(f)].ev)
      n == Cardinality({k \in DOMAIN log :
                          k > Emission(f) /\ log[k].p = f.pass /\ log[k].ev = "Called"})
  IN SubSeq(ls, n + 1, Len(ls))

\* emit calls the next listener: it returns, or it throws and the exception
\* leaves emit.
Invoke ==
  /\ At("listen")
  /\ Awaiting(Top) # << >>
  /\ LET l == Head(Awaiting(Top))
     IN IF l.behaviour = "throws"
        THEN /\ log' = log \o <<Entry("Called", Top.pass, Top.unit, l.id),
                                Entry("ListenerThrew", Top.pass, Top.unit, "")>>
             /\ stack' = SetTop([Top EXCEPT !.pc = "thrown"])
        ELSE /\ log' = Append(log, Entry("Called", Top.pass, Top.unit, l.id))
             /\ stack' = stack
  /\ UNCHANGED <<compilation, listeners, cancellation, classified,
                 solution, transformers, custom, watchers, handles, stopped, watchObj,
                 subscribed, dirty, disk, pending, budget>>

\* Every listener of the event returned: emit returns.
ListenersReturn ==
  /\ At("listen")
  /\ Awaiting(Top) = << >>
  /\ stack' = SetTop([Top EXCEPT !.pc = Top.cont])
  /\ UNCHANGED <<compilation, listeners, cancellation, classified,
                 solution, transformers, custom, watchers, handles, stopped, watchObj, log,
                 subscribed, dirty, disk, pending, budget>>

ListenerThrows ==
  /\ At("listen")
  /\ Fault
  /\ stack' = SetTop([Top EXCEPT !.pc = "thrown"])
  /\ log' = Append(log, Entry("ListenerThrew", Top.pass, Top.unit, ""))
  /\ UNCHANGED <<compilation, listeners, cancellation, classified,
                 solution, transformers, custom, watchers, handles, stopped, watchObj,
                 subscribed, dirty, disk, pending>>

\* A listener calls stop() on the handle.
ListenerStops ==
  /\ At("listen")
  /\ StopWatch
  /\ log' = Append(log, Entry("Stop", Top.pass, "", ""))
  /\ UNCHANGED <<compilation, listeners, cancellation, classified,
                 solution, transformers, custom, watchObj, stack, subscribed, dirty, disk,
                 pending>>

\* A listener calls build() on the solution.
ListenerBuilds ==
  /\ At("listen")
  /\ budget.nested > 0
  /\ budget' = [budget EXCEPT !.nested = @ - 1]
  /\ log' = Append(log, Entry("Enter", NextPass, "", "build"))
  /\ stack' = Append(stack, NewFrame(NextPass, FALSE, "build"))
  /\ UNCHANGED <<compilation, listeners, cancellation, classified,
                 solution, transformers, custom, watchers, handles, stopped, watchObj,
                 subscribed, dirty, disk, pending>>

\* A notification reaches the Watch while a listener runs (a ts.System
\* whose watchers call back synchronously): the pass it starts runs inside
\* the emit of the pass in progress.
ListenerDelivers(n) ==
  /\ At("listen")
  /\ budget.nested > 0
  /\ n \in pending
  /\ budget' = [budget EXCEPT !.nested = @ - 1]
  /\ pending' = pending \ {n}
  /\ IF CallbackBuilds(n[1], n[2])
     THEN /\ log' = log \o <<NotifyEntry(n), Entry("Enter", NextPass, "", "notify")>>
          /\ stack' = Append(stack, NewFrame(NextPass, TRUE, "notify"))
     ELSE /\ log' = Append(log, NotifyEntry(n))
          /\ stack' = stack
  /\ UNCHANGED <<compilation, listeners, cancellation, classified,
                 solution, transformers, custom, watchers, handles, stopped, watchObj,
                 subscribed, dirty, disk>>

-----------------------------------------------------------------------------
(* transformer.ts: the dispatcher of a Transformer over a syntax tree.     *)
(* A node is [kind, text, children]; a child, like a ts.VisitResult, is    *)
(* tagged: a node, an array of results, or undefined.                      *)

MaxPasses == 2

NoNode == [kind |-> "", text |-> "", children |-> << >>]

Bare(node) == [tag |-> "node", node |-> node, items |-> << >>]

List(items) == [tag |-> "array", node |-> NoNode, items |-> items]

Undefined == [tag |-> "undefined", node |-> NoNode, items |-> << >>]

Node(kind, text, children) == [kind |-> kind, text |-> text, children |-> children]

Leaf(text) == Bare(Node("Statement", text, << >>))

\* The source file of the tests: export class TestClass { property = 1337 }
IndexTs ==
  Node("SourceFile", "index",
       <<Bare(Node("ClassDeclaration", "TestClass",
                   <<Bare(Node("PropertyDeclaration", "property", << >>))>>))>>)

\* Source files of statements, one of them with statements of its own.
BlockTs ==
  Node("SourceFile", "block",
       <<Leaf("A"),
         Bare(Node("Statement", "B", <<Leaf("D"), Leaf("E")>>)),
         Leaf("C")>>)

FlatTs == Node("SourceFile", "flat", <<Leaf("A"), Leaf("C")>>)

Trees == {IndexTs, BlockTs, FlatTs}

Labels == {"A", "B", "C", "D"}

\* What a visitNode written by a user may return for a node.
Behaviours == {"same", "absent", "pair", "single"}

\* String.prototype.toUpperCase, letter by letter.
UpperLetter(c) ==
  CASE c = "a" -> "A" [] c = "b" -> "B" [] c = "c" -> "C" [] c = "d" -> "D"
    [] c = "e" -> "E" [] c = "f" -> "F" [] c = "g" -> "G" [] c = "h" -> "H"
    [] c = "i" -> "I" [] c = "j" -> "J" [] c = "k" -> "K" [] c = "l" -> "L"
    [] c = "m" -> "M" [] c = "n" -> "N" [] c = "o" -> "O" [] c = "p" -> "P"
    [] c = "q" -> "Q" [] c = "r" -> "R" [] c = "s" -> "S" [] c = "t" -> "T"
    [] c = "u" -> "U" [] c = "v" -> "V" [] c = "w" -> "W" [] c = "x" -> "X"
    [] c = "y" -> "Y" [] c = "z" -> "Z" [] OTHER -> c

RECURSIVE toUpperCase(_)
toUpperCase(s) ==
  IF Len(s) = 0 THEN ""
  ELSE UpperLetter(SubSeq(s, 1, 1)) \o toUpperCase(SubSeq(s, 2, Len(s)))

\* A transformer: its class, the stages it declares, the value of its
\* `stage` property ("" when it has none), and for a planned one what its
\* visitNode returns for each labelled statement.
Transformer(class, stages, stage, plan) ==
  [class |-> class, stages |-> stages, stage |-> stage, plan |-> plan]

NoPlan == [l \in Labels |-> "same"]

UpcasePropertyNamesTransformer ==
  Transformer("Upcase", {"before", "afterDeclarations"}, "", NoPlan)

MakePropertyNamesMagicTransformer ==
  Transformer("Magic", {"before", "afterDeclarations"}, "", NoPlan)

DiagnosticEmittingTransformer == Transformer("Diagnostic", {"before"}, "", NoPlan)

IdentityTransformer == Transformer("Identity", {"before"}, "", NoPlan)

Planned(plan) == Transformer("Planned", {"before"}, "", plan)

\* The second node of a pair returned by a planned visitNode.
Twin(node) == [node EXCEPT !.text = @ \o "2"]

\* visitNode(node, env): the user's code.
visitNode(tx, node) ==
  CASE tx.class = "Upcase" ->
         IF node.kind = "PropertyDeclaration"
         THEN Bare([node EXCEPT !.text = toUpperCase(@)]) ELSE Bare(node)
    [] tx.class = "Magic" ->
         IF node.kind = "PropertyDeclaration"
         THEN Bare([node EXCEPT !.text = "magic" \o @]) ELSE Bare(node)
    [] tx.class = "Planned" /\ node.text \in Labels ->
         CASE tx.plan[node.text] = "absent" -> Undefined
           [] tx.plan[node.text] = "pair" -> List(<<Bare(node), Bare(Twin(node))>>)
           [] tx.plan[node.text] = "single" -> List(<<Bare(node)>>)
           [] OTHER -> Bare(node)
    [] OTHER -> Bare(node)

\* Variant: an absent result leaves the node in place.
whenUndefinedKeeps(node) == Bare(node)

\* if (result === undefined) { return undefined; }
whenUndefined(node) == Undefined

\* .map(result => Array.isArray(result) ? result : [result])
wrap(results) ==
  [i \in DOMAIN results |->
     IF results[i].tag = "array" THEN results[i] ELSE List(<<results[i]>>)]

\* .reduce((acc, newNode) => [...acc, newNode], [])
RECURSIVE reduce(_, _, _)
reduce(results, acc, i) ==
  IF i > Len(results) THEN acc ELSE reduce(results, acc \o <<results[i]>>, i + 1)

\* Variant: a single result is returned as the array it is in.
collapseNever(results) == List(results)

\* return result.length === 1 ? result[0] : result
collapse(results) == IF Len(results) = 1 THEN results[1] ELSE List(results)

RECURSIVE visit(_, _), dispatch(_, _, _), visitEachChild(_, _), visitNodes(_, _, _)

\* ts.visitNodes (host): the visitor's result for each child, undefined
\* dropped and the elements of an array pushed one by one.
visitNodes(tx, nodes, i) ==
  IF i > Len(nodes) THEN << >>
  ELSE LET child == nodes[i]
           visited == IF child.tag = "node" THEN visit(tx, child.node)
                      ELSE dispatch(tx, NoNode, child)
           pushed == IF visited.tag = "undefined" THEN << >>
                     ELSE IF visited.tag = "array" THEN visited.items
                     ELSE <<visited>>
       IN pushed \o visitNodes(tx, nodes, i + 1)

\* ts.visitEachChild (host): the node with its children visited.
visitEachChild(tx, node) == [node EXCEPT !.children = visitNodes(tx, @, 1)]

\* #visit after visitNode returned `result` for `node`.
dispatch(tx, node, result) ==
  IF result.tag = "undefined" THEN whenUndefined(node)
  ELSE LET array == IF result.tag = "array" THEN result.items ELSE <<result>>
           mapped == [i \in DOMAIN array |->
                        IF array[i].tag = "node"
                        THEN Bare(visitEachChild(tx, array[i].node))
                        ELSE array[i]]
       IN collapse(reduce(wrap(mapped), << >>, 1))

\* #visit(program, context, node, reporter)
visit(tx, node) == dispatch(tx, node, visitNode(tx, node))

\* ts.visitNode (host) without a lift: an array result must hold at most one
\* node, which is the result.
tsVisitNode(visited) ==
  IF visited.tag = "array"
  THEN IF Len(visited.items) > 1 THEN "threw"
       ELSE IF Len(visited.items) = 0 THEN "undefined"
       ELSE "node"
  ELSE visited.tag

\* transform(program, context, node, reporter): ts.visitNode(node, #visit)
transform(tx, node) ==
  LET visited == visit(tx, node)
      tag == tsVisitNode(visited)
  IN [tag |-> tag,
      node |-> IF tag # "node" THEN NoNode
               ELSE IF visited.tag = "array" THEN visited.items[1].node
               ELSE visited.node]

\* The nodes visitNode is called with during #visit(node), in call order.
RECURSIVE calls(_, _), callsOfChildren(_, _, _)
callsOfChildren(tx, nodes, i) ==
  IF i > Len(nodes) THEN << >>
  ELSE (IF nodes[i].tag = "node" THEN calls(tx, nodes[i].node) ELSE << >>)
         \o callsOfChildren(tx, nodes, i + 1)

calls(tx, node) ==
  LET result == visitNode(tx, node)
      array == IF result.tag = "array" THEN result.items
               ELSE IF result.tag = "node" THEN <<result>> ELSE << >>
      below == [i \in DOMAIN array |-> callsOfChildren(tx, array[i].node.children, 1)]
      Flat[i \in 0..Len(below)] == IF i = 0 THEN << >> ELSE Flat[i - 1] \o below[i]
  IN <<node.text>> \o Flat[Len(below)]

\* The emitted text of a tree (host printer): every node's text, children
\* in brackets; an array where a node is expected prints as an array.
RECURSIVE print(_), printAll(_, _)
printAll(nodes, i) ==
  IF i > Len(nodes) THEN ""
  ELSE (IF nodes[i].tag = "node" THEN print(nodes[i].node)
        ELSE "[" \o printAll(nodes[i].items, 1) \o "]")
         \o (IF i < Len(nodes) THEN " " ELSE "") \o printAll(nodes, i + 1)

print(node) ==
  IF Len(node.children) = 0 THEN node.text
  ELSE node.text \o "{" \o printAll(node.children, 1) \o "}"

\* The kinds of ts.InvalidatedProject.
InvalidatedProjectKinds == {"Build", "UpdateBundle", "UpdateOutputFileStamps"}

InvalidatedProject(kind) == [kind |-> kind, getProgram |-> "Program"]

\* TransformerContext.program: getProgram() is called for a project of Build
\* kind, and the getter returns undefined.
program(invalidatedProject) ==
  IF invalidatedProject.kind = "Build" THEN "undefined" ELSE "undefined"

\* env.reportDiagnostic(node, category, code, messageText) of every call of
\* visitNode, handed to the reporter given to transform.
reported(tx, node) ==
  IF tx.class # "Diagnostic" THEN << >>
  ELSE [i \in DOMAIN calls(tx, node) |->
          [category |-> "Message", code |-> -1337, messageText |-> "Phony!",
           node |-> calls(tx, node)[i]]]

\* The passes of a phase applied one after the other (host), as long as each
\* returns a node.
RECURSIVE applyAll(_, _, _)
applyAll(txs, i, result) ==
  IF i > Len(txs) \/ result.tag # "node" THEN result
  ELSE applyAll(txs, i + 1, transform(txs[i], result.node))

\* A transformation that has not run.
NotRun == [state |-> "none"]

\* transform(node, context) of `delegate`, and an emit with `n` instances of
\* it registered for the phase.
Transform(n) ==
  /\ rewritten.state = "none"
  /\ rewritten' =
       [state |-> "done",
        result |-> transform(delegate, source),
        calls |-> calls(delegate, source),
        diagnostics |-> reported(delegate, source),
        program |-> program(transformerContext.invalidatedProject),
        passes |-> n,
        emitted |-> LET r == applyAll([i \in 1..n |-> delegate], 1,
                                      [tag |-> "node", node |-> source])
                    IN IF r.tag = "node" THEN print(r.node) ELSE r.tag]
  /\ UNCHANGED <<orchestration, listeners, cancellation, classified, compiler, emitResult, source,
                 delegate, transformerContext>>

-----------------------------------------------------------------------------
(* typescript-compiler.ts: TypeScriptCompiler.                             *)

MaxCompilerTransformers == 2

\* The transformer classes given to a compiler: those of the tests, and the
\* same classes with a `stage` property of their own.
CompilerTransformers ==
  {[tx EXCEPT !.stage = s] :
     tx \in {UpcasePropertyNamesTransformer, MakePropertyNamesMagicTransformer,
             DiagnosticEmittingTransformer},
     s \in {"", "before"}}

NotCompiled == [state |-> "none"]

\* this.transformers.push(transformer)
appendTransformer(tx) ==
  /\ emitResult.state = "none"
  /\ Len(compiler) < MaxCompilerTransformers
  /\ compiler' = Append(compiler, tx)
  /\ UNCHANGED <<orchestration, listeners, cancellation, classified, emitResult, source, delegate,
                 transformerContext, rewritten>>

\* this.transformers.unshift(transformer)
prependTransformer(tx) ==
  /\ emitResult.state = "none"
  /\ Len(compiler) < MaxCompilerTransformers
  /\ compiler' = <<tx>> \o compiler
  /\ UNCHANGED <<orchestration, listeners, cancellation, classified, emitResult, source, delegate,
                 transformerContext, rewritten>>

\* Variant: the transformers of a stage are those that declare it.
stageFilterDeclared(txs, stage) == SelectSeq(txs, LAMBDA tx : stage \in tx.stages)

\* this.transformers.filter(tx => tx.stage === TransformerStage.X)
stageFilter(txs, stage) == SelectSeq(txs, LAMBDA tx : tx.stage = stage)

\* toTransformerFactory: context => node => transformer.transform(program,
\* context, node), no reporter being given: a visitNode that reports a
\* diagnostic calls undefined.
toTransformerFactory(tx, node) ==
  IF tx.class = "Diagnostic" THEN [tag |-> "threw", node |-> NoNode]
  ELSE transform(tx, node)

RECURSIVE runFactories(_, _, _)
runFactories(txs, i, result) ==
  IF i > Len(txs) \/ result.tag # "node" THEN result
  ELSE runFactories(txs, i + 1, toTransformerFactory(txs[i], result.node))

\* program.emit(..., customTransformers) (host): the script is the source
\* after the before and after lists, the declarations the source after the
\* afterDeclarations list.
transformProgram(txs, sourceFile) ==
  LET start == [tag |-> "node", node |-> sourceFile]
      js == runFactories(stageFilter(txs, "before") \o stageFilter(txs, "after"), 1, start)
      dts == runFactories(stageFilter(txs, "afterDeclarations"), 1, start)
  IN IF js.tag = "threw" \/ dts.tag = "threw" THEN [state |-> "threw"]
     ELSE [state |-> "returned", emitSkipped |-> FALSE, diagnostics |-> << >>,
           js |-> IF js.tag = "node" THEN print(js.node) ELSE "",
           dts |-> IF dts.tag = "node" THEN print(dts.node) ELSE ""]

\* compileOnce(): the emit result, with the configuration's diagnostics
\* (none for the configuration of the tests) before those of the emit.
compileOnce ==
  /\ emitResult.state = "none"
  /\ emitResult' =
       LET transformResult == transformProgram(compiler, source)
       IN IF transformResult.state = "threw" THEN transformResult
          ELSE [transformResult EXCEPT !.diagnostics = << >> \o @]
  /\ UNCHANGED <<orchestration, listeners, cancellation, classified, compiler, source, delegate,
                 transformerContext, rewritten>>

-----------------------------------------------------------------------------
(* Specifications.                                                         *)

\* No listener, no cancellation token.
Quiet ==
  /\ listeners = << >>
  /\ cancellation = [token |-> "none", requested |-> FALSE]
  /\ classified = NotClassified

\* No compilation in progress.
NoCompilation ==
  /\ compiler = << >>
  /\ emitResult = NotCompiled
  /\ source = IndexTs
  /\ delegate = IdentityTransformer
  /\ transformerContext = [phase |-> "before",
                           invalidatedProject |-> InvalidatedProject("Build")]
  /\ rewritten = NotRun

\* The solution and the host before any call.
AtRestWith(variants) ==
  /\ transformers = << >>
  /\ custom = forInvalidatedProject(<< >>)
  /\ watchers = << >>
  /\ handles = << >>
  /\ stopped = FALSE
  /\ watchObj = "none"
  /\ stack = << >>
  /\ log = << >>
  /\ subscribed = 0
  /\ dirty = Units
  /\ \E v \in variants :
       disk = [text |-> [u \in Units |-> IF u = RootConfig THEN v ELSE "v1"],
               files |-> {}]
  /\ pending = {}
  /\ budget = [stops |-> MaxStops, changes |-> MaxChanges, nested |-> MaxNested,
               faults |-> MaxFaults]

AtRest == AtRestWith({"v1", "v2"})

Start ==
  /\ Quiet
  /\ NoCompilation
  /\ AtRest

\* One invocation of consumeBuilder, listeners that return or throw included.
Pass ==
  \/ BeforeSolution
  \/ NextProject
  \/ \E c \in {CategoryWarning, CategoryError} : DoneReports(c)
  \/ \E s \in ExitStatuses : DoneReturns(s)
  \/ DoneThrows
  \/ Finally
  \/ Propagate
  \/ Return
  \/ Raise
  \/ ListenersReturn
  \/ ListenerThrows

\* The host environment of a watch: files change, notifications arrive.
Host ==
  \/ \E f \in Files : Change(f, "")
  \/ \E u \in Units : \E v \in Variants(u) : Change(u, v)
  \/ \E n \in pending : Deliver(n)

\* The state after new TypeScriptSolution(RootConfig).
Init ==
  /\ Start
  /\ solution = [state |-> "constructed", path |-> RootConfig, error |-> ""]

Next ==
  \/ Build
  \/ ListenerBuilds
  \/ CallWatch
  \/ Stop
  \/ ListenerStops
  \/ \E n \in pending : ListenerDelivers(n)
  \/ Host
  \/ Subscribe
  \/ Unsubscribe
  \/ Pass
  \/ \E tx \in Passes : addTransformer(tx)
  \/ Materialize

Spec == Init /\ [][Next]_vars

\* build() alone, listeners that call build() again included.
NextBuild ==
  \/ Build
  \/ ListenerBuilds
  \/ Pass

SpecBuild == Init /\ [][NextBuild]_vars

\* watch() alone: the initial pass, the notifications, stop().
NextWatch ==
  \/ CallWatch
  \/ Stop
  \/ ListenerStops
  \/ Host
  \/ Subscribe
  \/ Unsubscribe
  \/ Pass

SpecWatch == Init /\ [][NextWatch]_vars

\* watch() on a system whose watchers call back synchronously: a pass can
\* start inside the emit of another pass.
NextReentrant ==
  \/ CallWatch
  \/ Stop
  \/ \E n \in pending : ListenerDelivers(n)
  \/ Host
  \/ Subscribe
  \/ Unsubscribe
  \/ Pass

SpecReentrant == Init /\ [][NextReentrant]_vars

\* The constructor, then build().
InitConstruct ==
  /\ Start
  /\ solution = [state |-> "none", path |-> "", error |-> ""]

NextConstruct ==
  \/ \E path \in {RootConfig, Missing} : Construct(path)
  \/ NextBuild

SpecConstruct == InitConstruct /\ [][NextConstruct]_vars

\* build() and watch() on one solution, listeners that call build() included.
NextSolution ==
  \/ Build
  \/ ListenerBuilds
  \/ CallWatch
  \/ Host
  \/ Subscribe
  \/ Unsubscribe
  \/ Pass

SpecSolution == Init /\ [][NextSolution]_vars

\* isOutputFile alone: one call, for each path and each combination of the
\* options it reads.
ClassifiedPaths ==
  {"/p/a.ts", "/p/a.tsx", "/p/a.js", "/p/dist/a.js", "/p/dist/a.d.ts", "/p/dist/a.ts",
   "/p/dist2/a.js", "/p/distinct/a.d.ts", "/p/types/a.d.ts", "/p/types.old/a.d.ts",
   "/p/bundle.js", "/p/bundle.d.ts", "/p/old.js"}

ClassifiedConfigs ==
  {[ok |-> TRUE,
    options |-> [NoOptions EXCEPT !.noEmit = noEmit, !.outFile = outFile, !.out = out,
                                  !.outDir = outDir, !.declarationDir = declarationDir],
    wildcardDirectories |-> << >>,
    fileNames |-> << >>] :
     noEmit \in BOOLEAN, outFile \in {"", "/p/bundle.js"}, out \in {"", "/p/old.js"},
     outDir \in {"", "/p/dist"}, declarationDir \in {"", "/p/types"}}

InitClassify ==
  /\ listeners = << >>
  /\ cancellation = [token |-> "none", requested |-> FALSE]
  /\ NoCompilation
  /\ AtRest
  /\ solution = [state |-> "constructed", path |-> RootConfig, error |-> ""]
  /\ classified \in {[state |-> "asked", path |-> path, config |-> config,
                       result |-> FALSE] :
                        path \in ClassifiedPaths, config \in ClassifiedConfigs}

SpecClassify == InitClassify /\ [][Classify]_vars

\* build() with the steps of consumeBuilder taken one after the other until
\* it returns or throws: the code is synchronous, so a call in progress does
\* not stand still.  This is the weak fairness of the steps of a call (each
\* of them changes the frame, and one of them is enabled while a call is in
\* progress), written out: time and again no call is in progress, or time
\* and again the frame changes.
Running == stack # << >>

SpecBuildFair ==
  /\ Init
  /\ [][NextBuild]_vars
  /\ ([]<>(~Running) \/ []<><<TRUE>>_stack)

\* watch() with the files each done() writes, for a root configuration with
\* an output directory (v1), with none (v3: the outputs go next to the
\* sources) and with an output file (v4); afterwards one source file is
\* changed.
EmitVariants == {"v1", "v3", "v4"}

Sources == {"/p/a.ts", "/q/b.ts"}

InitEmit ==
  /\ Quiet
  /\ NoCompilation
  /\ AtRestWith(EmitVariants)
  /\ solution = [state |-> "constructed", path |-> RootConfig, error |-> ""]

SourceChanges == \E f \in Sources : Change(f, "")

Delivers == \E n \in pending : Deliver(n)

PassEmitting ==
  \/ BeforeSolution
  \/ NextProject
  \/ \E c \in {CategoryWarning, CategoryError} : DoneReports(c)
  \/ \E s \in ExitStatuses : DoneEmits(s)
  \/ DoneThrows
  \/ Finally
  \/ Propagate
  \/ Return
  \/ Raise
  \/ ListenersReturn
  \/ ListenerThrows

NextEmit ==
  \/ CallWatch
  \/ SourceChanges
  \/ Delivers
  \/ Subscribe
  \/ Unsubscribe
  \/ PassEmitting

\* No pass is in progress and no notification is waiting.
Quiescent == stack = << >> /\ pending = {}

\* The steps of a pass are synchronous code and the host's event loop
\* delivers every notification it has queued: written out as for build(),
\* time and again the system is quiescent, or time and again a pass moves
\* or a notification is queued or delivered.
SpecEmit ==
  /\ InitEmit
  /\ [][NextEmit]_vars
  /\ ([]<>Quiescent \/ []<><<TRUE>>_<<stack, pending>>)

\* build() and watch() with a cancellation token, which the caller may
\* cancel at any moment and the host may observe in either call.
InitCancel ==
  /\ listeners = << >>
  /\ classified = NotClassified
  /\ cancellation \in {[token |-> t, requested |-> FALSE] : t \in {"none", "token"}}
  /\ NoCompilation
  /\ AtRest
  /\ solution = [state |-> "constructed", path |-> RootConfig, error |-> ""]

NextCancel ==
  \/ Build
  \/ CallWatch
  \/ Host
  \/ Subscribe
  \/ Unsubscribe
  \/ Pass
  \/ Cancel
  \/ NextCancelled
  \/ DoneCancelled

SpecCancel == InitCancel /\ [][NextCancel]_vars

\* build() on a solution with listeners subscribed through on().
ListenerEvents == {"BeforeProject", "Diagnostic", "OutputsGenerated", "AfterProject"}

NextListeners ==
  \/ \E event \in ListenerEvents : \E behaviour \in ListenerBehaviours : On(event, behaviour)
  \/ Build
  \/ Invoke
  \/ ListenersReturn
  \/ BeforeSolution
  \/ NextProject
  \/ \E c \in {CategoryWarning, CategoryError} : DoneReports(c)
  \/ \E s \in ExitStatuses : DoneReturns(s)
  \/ Finally
  \/ Propagate
  \/ Return
  \/ Raise

SpecListeners == Init /\ [][NextListeners]_vars

\* The transformers a transform is called on: those of the tests, and one
\* for each plan of what visitNode returns.
TransformDelegates ==
  {UpcasePropertyNamesTransformer, MakePropertyNamesMagicTransformer,
   DiagnosticEmittingTransformer, IdentityTransformer}
    \cup {Planned(plan) : plan \in [Labels -> Behaviours]}

\* The dispatcher alone: one transform of a tree by a transformer.
InitTransform ==
  /\ Quiet
  /\ AtRest
  /\ solution = [state |-> "constructed", path |-> RootConfig, error |-> ""]
  /\ compiler = << >>
  /\ emitResult = NotCompiled
  /\ source \in Trees
  /\ delegate \in TransformDelegates
  /\ transformerContext \in
       {[phase |-> "before", invalidatedProject |-> InvalidatedProject(kind)] :
          kind \in InvalidatedProjectKinds}
  /\ rewritten = NotRun

NextTransform == \E n \in 0..MaxPasses : Transform(n)

SpecTransform == InitTransform /\ [][NextTransform]_vars

\* TypeScriptCompiler: transformers are registered, then compileOnce() runs.
NextCompiler ==
  \/ \E tx \in CompilerTransformers : appendTransformer(tx)
  \/ \E tx \in CompilerTransformers : prependTransformer(tx)
  \/ compileOnce

SpecCompiler == Init /\ [][NextCompiler]_vars

\* The registry alone: passes are added and the factory lists materialized.
NextRegistry ==
  \/ \E tx \in Passes : addTransformer(tx)
  \/ Materialize

SpecRegistry == Init /\ [][NextRegistry]_vars

-----------------------------------------------------------------------------
(* Reading the record of the operation in progress.                        *)

EntriesOf(p, evs) == SelectSeq(log, LAMBDA e : e.p = p /\ e.ev \in evs)

Count(p, u, evs) ==
  Cardinality({i \in DOMAIN log : log[i].p = p /\ log[i].u = u /\ log[i].ev \in evs})

PassesOfLog == {log[i].p : i \in {j \in DOMAIN log : log[j].ev = "Enter"}}

Returned(p) == \E i \in DOMAIN log : log[i].ev = "Returned" /\ log[i].p = p

StartsPass(i) == i < Len(log) /\ log[i + 1].ev = "Enter"

Is(e, ev, p, u) == e.ev = ev /\ e.p = p /\ e.u = u

-----------------------------------------------------------------------------
(* Properties of consumeBuilder.                                           *)

OutcomeEvents == {"OutputsGenerated", "OutputsSkipped", "Unsupported"}

ExpectedOutcome(s) ==
  CASE s = Success -> [ev |-> "OutputsGenerated", x |-> ""]
    [] s = DiagnosticsPresent_OutputsGenerated -> [ev |-> "OutputsGenerated", x |-> ""]
    [] s = DiagnosticsPresent_OutputsSkipped ->
         [ev |-> "OutputsSkipped", x |-> "diagnosticsPresent"]
    [] s = InvalidProject_OutputsSkipped ->
         [ev |-> "OutputsSkipped", x |-> "invalidProject"]
    [] s = ProjectReferenceCycle_OutputsSkipped ->
         [ev |-> "OutputsSkipped", x |-> "projectReferenceCycle"]
    [] s = ProjectReferenceCycle_OutputsSkupped ->
         [ev |-> "OutputsSkipped", x |-> "projectReferenceCycle"]
    [] OTHER -> [ev |-> "Unsupported", x |-> s]

\* C1: every unit whose done() returns gets exactly one outcome, the one of
\* its exit status: OutputsGenerated for Success and
\* DiagnosticsPresent_OutputsGenerated, OutputsSkipped with the reason of the
\* status for the three skipping statuses (both spellings of the reference
\* cycle alike), the fatal path for any other status, after which the pass
\* neither goes on to another unit nor returns; and no outcome is emitted
\* for a unit whose done() did not return.
C1_OutcomeClassification ==
  /\ \A i \in DOMAIN log : log[i].ev = "Done" =>
       /\ i < Len(log)
       /\ Is(log[i + 1], ExpectedOutcome(log[i].x).ev, log[i].p, log[i].u)
       /\ log[i + 1].x = ExpectedOutcome(log[i].x).x
       /\ Count(log[i].p, log[i].u, OutcomeEvents) = 1
  /\ \A j \in DOMAIN log : log[j].ev \in OutcomeEvents =>
       /\ j > 1
       /\ log[j - 1].ev = "Done"
  /\ \A j \in DOMAIN log : log[j].ev = "Unsupported" =>
       /\ ~Returned(log[j].p)
       /\ \A k \in DOMAIN log :
            k > j /\ log[k].p = log[j].p => log[k].ev \notin {"Yield", "Done"}

\* A unit was skipped for a reference cycle in a pass that returned.
C1_CycleSkipped ==
  \E i \in DOMAIN log :
    /\ log[i].ev = "Done"
    /\ log[i].x = ProjectReferenceCycle_OutputsSkupped
    /\ log[i + 1].ev = "OutputsSkipped"
    /\ Returned(log[i].p)

UnitEvents == {"BeforeProject", "OutputsGenerated", "OutputsSkipped", "AfterProject"}

\* C2: in a pass that returned, the per-unit events are, for the units in
\* the order the planner yielded them, BeforeProject(u), one of
\* OutputsGenerated(u) / OutputsSkipped(u), AfterProject(u), each unit's
\* three before the next unit's; done() returned once per yielded unit and
\* no unit is yielded twice.  Hence the counts of BeforeProject, of
\* AfterProject and of outcomes are equal.
C2_PerUnitOrder ==
  \A p \in PassesOfLog : Returned(p) =>
    LET ys == EntriesOf(p, {"Yield"})
        es == EntriesOf(p, UnitEvents)
        ds == EntriesOf(p, {"Done"})
    IN /\ Len(es) = 3 * Len(ys)
       /\ Len(ds) = Len(ys)
       /\ \A k \in DOMAIN ys :
            /\ Is(es[3 * k - 2], "BeforeProject", p, ys[k].u)
            /\ es[3 * k - 1].ev \in {"OutputsGenerated", "OutputsSkipped"}
            /\ es[3 * k - 1].u = ys[k].u
            /\ Is(es[3 * k], "AfterProject", p, ys[k].u)
            /\ ds[k].u = ys[k].u
       /\ \A k, l \in DOMAIN ys : k # l => ys[k].u # ys[l].u
       /\ Len(EntriesOf(p, {"BeforeProject"})) = Len(EntriesOf(p, {"AfterProject"}))
       /\ Len(EntriesOf(p, {"BeforeProject"}))
            = Len(EntriesOf(p, {"OutputsGenerated"})) + Len(EntriesOf(p, {"OutputsSkipped"}))

\* A pass over two units returned, one of them skipped.
C2_TwoUnitsReturned ==
  \E p \in PassesOfLog :
    /\ Returned(p)
    /\ Len(EntriesOf(p, {"Yield"})) = 2
    /\ Len(EntriesOf(p, {"OutputsSkipped"})) = 1

-----------------------------------------------------------------------------
(* Properties of the registry.                                             *)

Delegates(factories) == [i \in DOMAIN factories |-> factories[i].delegate]

DeclaredFor(txs, phase) == SelectSeq(txs, LAMBDA tx : phase \in tx)

\* C3: the lists materialized for a registry are, phase by phase, the
\* registered passes whose declared phases include the phase, in
\* registration order (the registry being the passes added before the
\* materialization).
C3_PhaseBuckets ==
  \E n \in 0 .. Len(transformers) :
    \A phase \in Phases :
      Delegates(custom[phase]) = DeclaredFor(SubSeq(transformers, 1, n), phase)

-----------------------------------------------------------------------------
(* Properties of the Watch.                                                *)

\* C4: every handle that is not closed is the one the table holds for its
\* path (so no path has two); a step that keeps a path in the table keeps
\* its handle, neither closed nor replaced, and a new handle is only ever
\* created for a path the table did not hold.
C4_OneHandlePerPath ==
  [][/\ \A i \in DOMAIN handles' : handles'[i].closed = 0 =>
          /\ handles'[i].path \in DOMAIN watchers'
          /\ watchers'[handles'[i].path] = i
     /\ \A path \in DOMAIN watchers : path \in DOMAIN watchers' =>
          /\ watchers'[path] = watchers[path]
          /\ handles'[watchers[path]] = handles[watchers[path]]
     /\ \A i \in DOMAIN handles' : i \notin DOMAIN handles =>
          handles'[i].path \notin DOMAIN watchers]_vars

\* A pass that started inside another pass's emit has refreshed the watch
\* set for a configuration that was being watched already.
C4_NestedRefresh ==
  /\ Len(stack) = 2
  /\ \E i \in DOMAIN log :
       /\ log[i].ev = "Refresh"
       /\ log[i].p = 2
       /\ log[i].u \in DOMAIN watchers
       /\ Cardinality({j \in DOMAIN handles : handles[j].path = log[i].u}) = 1

C6_NoWatchAfterStop ==
  stopped => /\ watchers = << >>
             /\ \A i \in DOMAIN handles : handles[i].closed # 0

\* C7 (as stated): nothing is emitted after stop(): no BeforeSolution and no
\* BeforeProject follows a stop() in the record of an operation, and an
\* operation that starts with a notification delivered after stop() emits
\* neither.
C7_NoEventAfterStop ==
  /\ \A i, j \in DOMAIN log :
       i < j /\ log[i].ev = "Stop" => log[j].ev \notin {"BeforeSolution", "BeforeProject"}
  /\ \A i, j \in DOMAIN log :
       i < j /\ log[i].ev = "Notify" /\ log[i].x.stopped
         => log[j].ev \notin {"BeforeSolution", "BeforeProject"}

\* C7: a notification delivered after stop() starts no pass, whatever the
\* watcher it comes from, and no pass starts (no BeforeSolution is emitted)
\* after a stop() made while an operation is in progress; an operation that
\* starts with a notification delivered after stop() emits neither
\* BeforeSolution nor BeforeProject.
C7_NoPassAfterStop ==
  /\ \A i \in DOMAIN log : log[i].ev = "Notify" /\ log[i].x.stopped => ~StartsPass(i)
  /\ \A i, j \in DOMAIN log :
       i < j /\ log[i].ev = "Stop" => log[j].ev \notin {"Enter", "BeforeSolution"}
  /\ \A i, j \in DOMAIN log :
       i < j /\ log[i].ev = "Notify" /\ log[i].x.stopped
         => log[j].ev \notin {"BeforeSolution", "BeforeProject"}

\* The callback of a file watcher registered before stop() ran after it.
C7_NotifiedAfterStop ==
  /\ log # << >>
  /\ log[1].ev = "Notify"
  /\ log[1].x.stopped
  /\ handles[log[1].x.h].kind = "file"
  /\ handles[log[1].x.h].closed = 1

DirNotifies ==
  {i \in DOMAIN log : log[i].ev = "Notify" /\ handles[log[i].x.h].kind = "dir"}

AllowedExtension(f, c) ==
  \/ extname(f) \in {".ts", ".tsx"}
  \/ c.options.allowJs /\ extname(f) \in {".js", ".jsx"}
  \/ c.options.resolveJsonModule /\ extname(f) = ".json"

PassesFilter(f, h) ==
  \/ f = h.path
  \/ AllowedExtension(f, h.config) /\ ~isOutputFile(f, h.config)

\* C8 (as stated): a notification of a directory watch starts a pass if and
\* only if it names the directory, or a file with an allowed extension that
\* is not an output file of the configuration.
C8_DirectoryFilter ==
  \A i \in DirNotifies :
    StartsPass(i) <=> PassesFilter(log[i].u, handles[log[i].x.h])

\* C8: a notification of a directory watch starts a pass if and only if
\* stop() has not been called and it names the directory, or a file with an
\* allowed extension that is not an output file of the configuration.
C8_DirectoryFilterUntilStop ==
  \A i \in DirNotifies :
    StartsPass(i) <=> (~log[i].x.stopped /\ PassesFilter(log[i].u, handles[log[i].x.h]))

\* A .js file of a directory watched for a configuration that allows JS
\* started a pass.
C8_JsStartedPass ==
  \E i \in DirNotifies :
    /\ StartsPass(i)
    /\ log[i].u # handles[log[i].x.h].path
    /\ extname(log[i].u) = ".js"

Owner(f) == CHOOSE u \in Units : dirname(u) = dirname(f)

DeclaredOutput(f, c) ==
  /\ c.ok
  /\ \/ c.options.outDir # "" /\ startsWith(f, c.options.outDir \o "/")
     \/ c.options.declarationDir # "" /\ startsWith(f, c.options.declarationDir \o "/")
  /\ endsWith(f, ".js") \/ endsWith(f, ".d.ts")

\* C9: while the watch is not stopped, the notification of a directory
\* watch for a source file its configuration did not list, which the
\* planner finds to have made the owning unit out of date, starts a pass,
\* and a pass that returns has exactly one BeforeProject and one
\* AfterProject for the owning unit; the notification for a file under the
\* output directories of the configuration starts no pass.
C9_WatchScenario ==
  \A i \in DirNotifies :
    LET f == log[i].u
        h == handles[log[i].x.h]
    IN /\ ( /\ f = NewSource
            /\ f \notin Range(h.config.fileNames)
            /\ ~log[i].x.stopped
            /\ Owner(f) \in log[i].x.dirty )
          => /\ StartsPass(i)
             /\ Returned(log[i + 1].p) =>
                  /\ Count(log[i + 1].p, Owner(f), {"BeforeProject"}) = 1
                  /\ Count(log[i + 1].p, Owner(f), {"AfterProject"}) = 1
       /\ DeclaredOutput(f, h.config) => ~StartsPass(i)

\* The new source file was built by a pass that returned, after the
\* initial pass.
C9_NewSourceBuilt ==
  /\ watchObj = "returned"
  /\ 1 \in DirNotifies
  /\ log[1].u = NewSource
  /\ StartsPass(1)
  /\ Returned(log[2].p)
  /\ Count(log[2].p, RootConfig, {"AfterProject"}) = 1

\* C10: in watch mode AfterProject(u) is emitted right after the watch set
\* was refreshed for u; a unit whose done() returned, with any exit status,
\* has been refreshed before the pass moves to another unit, ends or
\* throws; and a refresh leaves the configuration file of the unit watched
\* for as long as stop() is not called.
C10_RefreshBeforeAfterProject ==
  /\ \A j \in DOMAIN log : log[j].ev = "AfterProject" =>
       /\ j > 1
       /\ Is(log[j - 1], "Refresh", log[j].p, log[j].u)
  /\ \A i, k \in DOMAIN log :
       ( /\ i < k
         /\ log[i].ev = "Done"
         /\ log[k].p = log[i].p
         /\ log[k].ev \in {"Yield", "AfterSolution", "Returned", "Threw"} )
       => \E r \in (i + 1) .. (k - 1) : Is(log[r], "Refresh", log[i].p, log[i].u)
  /\ \A j \in DOMAIN log :
       ( /\ log[j].ev = "Refresh"
         /\ \A k \in DOMAIN log : k > j => log[k].ev # "Stop" )
       => log[j].u \in DOMAIN watchers

\* A unit with an unsupported exit status had its AfterProject emitted.
C10_FailedUnitRefreshed ==
  \E i, j \in DOMAIN log :
    /\ i < j
    /\ log[i].ev = "Unsupported"
    /\ Is(log[j], "AfterProject", log[i].p, log[i].u)

-----------------------------------------------------------------------------
(* Properties of the watch-set refresh.                                    *)

\* The watchConfigFile calls of the step: the Refresh entries it adds.
NewRefreshes == {i \in DOMAIN log' : i > Len(log) /\ log'[i].ev = "Refresh"}

DirsOf(c) == {c.wildcardDirectories[k][1] : k \in DOMAIN c.wildcardDirectories}

FilesOf(c) == Range(c.fileNames)

\* C11: a watchConfigFile(path) call returns (what follows it in the caller
\* happens) whether or not the configuration parses; afterwards path has an
\* open file watch; when the configuration does not parse nothing else is
\* registered; when it parses every wildcard directory is watched, a newly
\* watched one recursively exactly when its flags have the Recursive bit,
\* every listed input file is watched, and nothing else is registered.
C11_RefreshNeverThrows ==
  [][\A i \in NewRefreshes :
       LET path == log'[i].u
           c == parseConfiguration(path, disk)
           added == DOMAIN watchers' \ DOMAIN watchers
       IN /\ i < Len(log')
          /\ log'[i + 1].ev \in {"AfterProject", "Enter"}
          /\ path \in DOMAIN watchers'
          /\ handles'[watchers'[path]].closed = 0
          /\ handles'[watchers'[path]].kind = "file"
          /\ IF ~c.ok
             THEN added \subseteq {path}
             ELSE /\ \A k \in DOMAIN c.wildcardDirectories :
                       LET d == c.wildcardDirectories[k][1]
                           flags == c.wildcardDirectories[k][2]
                       IN /\ d \in DOMAIN watchers'
                          /\ d \in added =>
                               /\ handles'[watchers'[d]].kind = "dir"
                               /\ handles'[watchers'[d]].recursive = (flags % 2 = 1)
                  /\ \A f \in FilesOf(c) : f \in DOMAIN watchers'
                  /\ added \subseteq {path} \cup DirsOf(c) \cup FilesOf(c)]_vars

\* The refresh for a configuration that does not parse left its file
\* watched, and nothing of its directory.
C11_UnparsedConfigWatched ==
  /\ disk.text[RefConfig] = "bad"
  /\ RefConfig \in DOMAIN watchers
  /\ "/q" \notin DOMAIN watchers
  /\ \E i \in DOMAIN log : log[i].ev = "Refresh" /\ log[i].u = RefConfig

\* C12: refreshing a path twice in a row gives the table and the handles
\* that refreshing it once gives, from any state the Watch is in; and a
\* refresh that follows a refresh of the same path in the same operation
\* (the configuration on disk being the same, and stop() not called in
\* between) creates no handle and closes none.
C12_RefreshIdempotent ==
  [][/\ \A path \in Units :
          LET once == watchConfigFile([watchers |-> watchers', handles |-> handles'],
                                      path, disk')
          IN watchConfigFile(once, path, disk') = once
     /\ \A i \in NewRefreshes :
          (\E j \in DOMAIN log :
             /\ log[j].ev = "Refresh"
             /\ log[j].u = log'[i].u
             /\ \A k \in DOMAIN log : k > j => log[k].ev # "Stop")
          => /\ watchers' = watchers
             /\ handles' = handles]_vars

\* The root configuration was refreshed by watch() and again by the pass.
C12_RefreshedTwice ==
  \E i, j \in DOMAIN log :
    /\ i < j
    /\ log[i].ev = "Refresh" /\ log[j].ev = "Refresh"
    /\ log[i].u = RootConfig /\ log[j].u = RootConfig
    /\ RootConfig \in DOMAIN watchers
    /\ Cardinality({h \in DOMAIN handles : handles[h].path \in DirsOf(
                      parseConfiguration(RootConfig, disk))}) = 1

InDirectoryOf(path, u) == path = dirname(u) \/ startsWith(path, dirname(u) \o "/")

-----------------------------------------------------------------------------
(* Properties of the solution events.                                      *)

SolutionEvents == {"BeforeSolution", "AfterSolution"}

\* The passes started by build(), and those started by watch() or by a
\* change notification.
BuildPasses == {log[i].p : i \in {j \in DOMAIN log : log[j].ev = "Enter" /\ log[j].x = "build"}}

WatchPasses == PassesOfLog \ BuildPasses

IndexOf(p, ev) == CHOOSE i \in DOMAIN log : log[i].p = p /\ log[i].ev = ev

\* C14: a pass of build() emits neither BeforeSolution nor AfterSolution;
\* a watch-mode pass that returned emitted each exactly once, BeforeSolution
\* before each of its BeforeProject and AfterSolution after each of its
\* AfterProject.
C14_SolutionEvents ==
  /\ \A p \in BuildPasses : \A i \in DOMAIN log :
       log[i].p = p => log[i].ev \notin SolutionEvents
  /\ \A p \in WatchPasses : Returned(p) =>
       /\ Count(p, "", {"BeforeSolution"}) = 1
       /\ Count(p, "", {"AfterSolution"}) = 1
       /\ \A i \in DOMAIN log :
            /\ (log[i].p = p /\ log[i].ev = "BeforeProject") =>
                 IndexOf(p, "BeforeSolution") < i
            /\ (log[i].p = p /\ log[i].ev = "AfterProject") =>
                 i < IndexOf(p, "AfterSolution")

\* A watch pass returned after a listener of it ran a build() that
\* processed a unit and returned.
C14_WatchAndBuildReturned ==
  \E p \in WatchPasses, q \in BuildPasses :
    /\ Returned(p)
    /\ Returned(q)
    /\ \E u \in Units : Count(p, u, {"BeforeProject"}) = 1
    /\ \E u \in Units : Count(q, u, {"BeforeProject"}) = 1

\* The Error diagnostics reported by done() for the units of pass p.
ErrorsOf(p) ==
  {j \in DOMAIN log :
     /\ log[j].p = p
     /\ log[j].ev = "Diagnostic"
     /\ log[j].x = CategoryError}

\* C15: the count carried by the AfterSolution of a pass is the number of
\* Error diagnostics reported during that pass's own units; a diagnostic of
\* another pass, such as a build() run by a listener of this pass, is not
\* counted.
C15_ErrorCountOfPass ==
  \A i \in DOMAIN log :
    log[i].ev = "AfterSolution" => log[i].x = Cardinality(ErrorsOf(log[i].p))

\* C16: the counter subscribed by a pass does not outlive the pass: when no
\* pass is running, no incrementErrorCounter is subscribed.
C16_NoListenerLeft == stack = << >> => subscribed = 0

-----------------------------------------------------------------------------
(* Properties of a pass that fails.                                        *)

Threw(p) == \E i \in DOMAIN log : log[i].ev = "Threw" /\ log[i].p = p

\* What a pass may still record once an exception travels through it: the
\* refresh and the AfterProject of the finally block, and the exception
\* leaving it.
AbortEvents == {"Refresh", "AfterProject", "ListenerThrew", "Threw", "Error"}

\* Pass p neither goes on nor returns: while consumeBuilder is on the call
\* stack it carries the exception towards its caller.
Aborting(p) ==
  /\ ~Returned(p)
  /\ \A d \in DOMAIN stack : stack[d].pass = p =>
       /\ stack[d].exc
       /\ stack[d].pc \in {"finally", "listen", "thrown", "raise"}
       /\ stack[d].pc = "listen" => stack[d].cont = "thrown"
  /\ (\A d \in DOMAIN stack : stack[d].pass # p) => Threw(p)

\* From entry j on, pass p records nothing but its abort: no outcome, no
\* diagnostic, no further unit.
NothingAfter(j, p) ==
  \A k \in DOMAIN log : (k > j /\ log[k].p = p) => log[k].ev \in AbortEvents

MappedStatuses ==
  {Success, DiagnosticsPresent_OutputsSkipped, DiagnosticsPresent_OutputsGenerated,
   InvalidProject_OutputsSkipped, ProjectReferenceCycle_OutputsSkipped,
   ProjectReferenceCycle_OutputsSkupped}

StatusNames ==
  {"Success", "DiagnosticsPresent_OutputsSkipped", "DiagnosticsPresent_OutputsGenerated",
   "InvalidProject_OutputsSkipped", "ProjectReferenceCycle_OutputsSkipped",
   "ProjectReferenceCycle_OutputsSkupped"}

C18_VisitExceptionPropagates ==
  \A j \in DOMAIN log : log[j].ev = "DoneThrew" =>
    /\ Count(log[j].p, log[j].u, {"Done"} \cup OutcomeEvents) = 0
    /\ NothingAfter(j, log[j].p)
    /\ \A k \in DOMAIN log :
         (k > j /\ log[k].p = log[j].p) => log[k].ev # "Diagnostic"
    /\ Aborting(log[j].p)

\* The exception of done() left a pass that a listener of another pass had
\* started, and went on through that pass.
C18_ThrewThroughNestedPass ==
  \E j \in DOMAIN log :
    /\ log[j].ev = "DoneThrew"
    /\ log[j].p > 1
    /\ Threw(log[j].p)
    /\ Threw(1)

-----------------------------------------------------------------------------
(* Properties of the constructor and of watch().                           *)

Contains(s, sub) ==
  \E i \in 1..(Len(s) - Len(sub) + 1) : SubSeq(s, i, i + Len(sub) - 1) = sub

\* C19: a solution is constructed only for a path that names an existing
\* file; for any other path the constructor throws an error whose message
\* contains "does not exist", and then no pass has run or runs, no event is
\* recorded, no listener is subscribed and nothing is watched.
C19_MissingConfigThrows ==
  /\ solution.state = "constructed" => solution.path \in DOMAIN disk.text
  /\ solution.state = "failed" =>
       /\ solution.path \notin DOMAIN disk.text
       /\ Contains(solution.error, "does not exist")
       /\ stack = << >>
       /\ log = << >>
       /\ watchers = << >>
       /\ handles = << >>
       /\ watchObj = "none"
       /\ subscribed = 0
       /\ dirty = Units

\* The constructor threw for the path of the test.
C19_ConstructorThrew ==
  /\ solution.state = "failed"
  /\ solution.path = Missing
  /\ solution.error = "/one/tsconfig.json does not exist!"

\* C20: at the step by which watch() returns its handle, the initial pass
\* has run to its end: every unit that was out of date has had its
\* BeforeProject, its outcome and its AfterProject, in this order, the pass
\* has returned, no listener is still running, and the root configuration
\* file is watched by an open handle.
C20_InitialPassBeforeReturn ==
  [][(watchObj # "returned" /\ watchObj' = "returned") =>
       /\ Is(log[2], "Enter", 1, "")
       /\ log[2].x = "watch"
       /\ Returned(1)
       /\ \A u \in Units :
            \E i, j, k \in DOMAIN log :
              /\ i < j /\ j < k
              /\ Is(log[i], "BeforeProject", 1, u)
              /\ log[j].p = 1 /\ log[j].u = u
              /\ log[j].ev \in {"OutputsGenerated", "OutputsSkipped"}
              /\ Is(log[k], "AfterProject", 1, u)
       /\ stack' = << >>
       /\ RootConfig \in DOMAIN watchers'
       /\ handles'[watchers'[RootConfig]].closed = 0]_vars

\* watch() returned after an initial pass that built every unit.
C20_WatchReturned ==
  /\ watchObj = "returned"
  /\ stack = << >>
  /\ dirty = {}
  /\ ~stopped
  /\ RootConfig \in DOMAIN watchers

-----------------------------------------------------------------------------
(* Properties of the listeners.                                            *)

\* The entries of the pass of entry e that come after it.
EntriesAfter(e) == {k \in DOMAIN log : k > e /\ log[k].p = log[e].p}

\* The entries of the emit recorded at e: what the pass recorded before it
\* emitted again.
DuringEmit(e) ==
  {k \in EntriesAfter(e) :
     \A m \in EntriesAfter(e) : m <= k => log[m].ev \notin BuildEvents}

\* The numbers of a set, smallest first.
RECURSIVE Ascending(_)
Ascending(S) ==
  IF S = {} THEN << >>
  ELSE LET least == CHOOSE x \in S : \A y \in S : x <= y
       IN <<least>> \o Ascending(S \ {least})

\* The listeners called by the emit recorded at e, in call order.
CalledBy(e) ==
  LET at == Ascending({k \in DuringEmit(e) : log[k].ev = "Called"})
  IN [i \in DOMAIN at |-> log[at[i]].x]

\* The listeners subscribed to an event, in subscription order.
SubscribedTo(event) == Ascending({i \in DOMAIN listeners : listeners[i].event = event})

Throws(id) == listeners[id].behaviour = "throws"

\* The pass of entry e went on, or returned, after the emit recorded at e.
WentOn(e) ==
  \/ \E k \in EntriesAfter(e) : log[k].ev \notin {"Called", "ListenerThrew"}
  \/ \A d \in DOMAIN stack : stack[d].pass = log[e].p => stack[d].pc # "listen"

\* C21: an emit calls the listeners subscribed to its event in subscription
\* order; the pass does nothing else before the last of them returned or
\* one of them threw; after a listener that threw none of the later
\* listeners of the event is called, and the exception leaves the step that
\* emitted: the pass records only what its finally block and the unwinding
\* do, and it does not return.
C21_ListenersInOrder ==
  \A e \in DOMAIN log : log[e].ev \in BuildEvents =>
    LET called == CalledBy(e)
        expected == SubscribedTo(log[e].ev)
    IN /\ Len(called) <= Len(expected)
       /\ called = SubSeq(expected, 1, Len(called))
       /\ \A i \in DOMAIN called : Throws(called[i]) => i = Len(called)
       /\ WentOn(e) =>
            \/ called = expected
            \/ called # << >> /\ Throws(called[Len(called)])
       /\ (called # << >> /\ Throws(called[Len(called)])) =>
            /\ ~Returned(log[e].p)
            /\ \A k \in EntriesAfter(e) :
                 log[k].ev \in AbortEvents \cup {"Called"}
            /\ (\A d \in DOMAIN stack : stack[d].pass # log[e].p) => Threw(log[e].p)

\* Two listeners of BeforeProject: the first returned, the second threw, and
\* the exception left build() before the unit was built.
C21_SecondListenerThrew ==
  /\ Len(listeners) = 2
  /\ listeners[1].event = "BeforeProject" /\ listeners[1].behaviour = "returns"
  /\ listeners[2].event = "BeforeProject" /\ listeners[2].behaviour = "throws"
  /\ \E e \in DOMAIN log :
       /\ log[e].ev = "BeforeProject"
       /\ CalledBy(e) = <<1, 2>>
       /\ Threw(log[e].p)
       /\ Count(log[e].p, log[e].u, {"Done", "AfterProject"}) = 0

-----------------------------------------------------------------------------
(* Properties of the cancellation token.                                   *)

\* What makes a pass throw: a listener, done(), an exit status without event.
ThrowEvents == {"ListenerThrew", "DoneThrew", "Unsupported"}

\* How often pass p called the host's `op`, by what the pass recorded.
CallsRecorded(p, op) ==
  Cardinality({i \in DOMAIN log :
     /\ log[i].p = p
     /\ IF op = "next"
        THEN \/ log[i].ev \in {"Yield", "AfterSolution"}
             \/ log[i].ev = "Returned" /\ p \in BuildPasses
             \/ log[i].ev = "Cancelled" /\ log[i].x = "next"
        ELSE \/ log[i].ev \in {"Done", "DoneThrew"}
             \/ log[i].ev = "Cancelled" /\ log[i].x = "done"})

\* C30: every getNextInvalidatedProject call and every done() call of a pass
\* receives the token given to build() / watch(); once a call observed the
\* cancellation the pass yields no further unit, emits no further
\* BeforeProject and no AfterSolution, and leaves by the exception; no pass
\* cut short by an exception emits AfterSolution afterwards.
C30_TokenForwarded ==
  /\ \A d \in DOMAIN stack :
       /\ \A i \in DOMAIN stack[d].calls : stack[d].calls[i].token = cancellation.token
       /\ \A op \in {"next", "done"} :
            Len(SelectSeq(stack[d].calls, LAMBDA c : c.op = op))
              = CallsRecorded(stack[d].pass, op)
  /\ \A j \in DOMAIN log : log[j].ev = "Cancelled" =>
       /\ cancellation.requested
       /\ NothingAfter(j, log[j].p)
       /\ Aborting(log[j].p)
  /\ \A j \in DOMAIN log : log[j].ev \in ThrowEvents \cup {"Cancelled"} =>
       \A k \in DOMAIN log :
         (k > j /\ log[k].p = log[j].p) =>
            log[k].ev \notin {"Yield", "BeforeProject", "AfterSolution", "Returned"}

\* The initial pass of watch() was cancelled inside done() of its first unit:
\* the second unit never got a BeforeProject, and the exception left the pass
\* after the finally block.
C30_CancelledInFirstUnit ==
  \E j \in DOMAIN log :
    /\ log[j].ev = "Cancelled"
    /\ log[j].x = "done"
    /\ log[j].u = RefConfig
    /\ log[j].p \in WatchPasses
    /\ Count(log[j].p, RefConfig, {"AfterProject"}) = 1
    /\ Count(log[j].p, RootConfig, {"BeforeProject"}) = 0
    /\ Threw(log[j].p)

-----------------------------------------------------------------------------
(* Properties of the diagnostics of a pass.                                *)

\* C22: a diagnostic the host reports while a unit is built is never thrown:
\* it becomes exactly one Diagnostic event of the pass, carrying the
\* diagnostic, in report order; after the event the unit is still being
\* processed, and a pass that returned emitted the unit's outcome after it.
\* A pass with a diagnostic throws only for what happened after it.
C22_DiagnosticsSurfaced ==
  /\ \A d \in DOMAIN stack :
       LET evs == EntriesOf(stack[d].pass, {"Diagnostic"})
           reports == stack[d].reports
       IN /\ Len(evs) = Len(reports)
          /\ \A i \in DOMAIN evs :
               /\ evs[i].u = reports[i].u
               /\ evs[i].x = reports[i].category
  /\ \A j \in DOMAIN log : log[j].ev = "Diagnostic" =>
       /\ j = Len(log) =>
            /\ Top.pass = log[j].p
            /\ Top.unit = log[j].u
            /\ ~Top.exc
            /\ Top.pc \in {"listen", "done"}
            /\ Top.pc = "listen" => Top.cont = "done"
       /\ Returned(log[j].p) =>
            \E k \in DOMAIN log :
              /\ k > j
              /\ log[k].p = log[j].p
              /\ log[k].u = log[j].u
              /\ log[k].ev \in {"OutputsGenerated", "OutputsSkipped"}
       /\ Threw(log[j].p) =>
            \E k \in DOMAIN log : k > j /\ log[k].ev \in ThrowEvents

\* A watch-mode pass returned after the host reported a warning for a unit
\* whose outputs were then generated.
C22_WarnedAndGenerated ==
  \E j \in DOMAIN log :
    /\ log[j].ev = "Diagnostic"
    /\ log[j].x = CategoryWarning
    /\ log[j].p \in WatchPasses
    /\ Returned(log[j].p)
    /\ \E k \in DOMAIN log :
         k > j /\ Is(log[k], "OutputsGenerated", log[j].p, log[j].u)

-----------------------------------------------------------------------------
(* Properties of TypeScriptCompiler.                                       *)

DeclaredIn(txs, stage) == SelectSeq(txs, LAMBDA tx : stage \in tx.stages)

\* What an emit prints when the transformers of `txs` are applied in order.
Applied(txs, sourceFile) ==
  LET r == applyAll(txs, 1, [tag |-> "node", node |-> sourceFile])
  IN IF r.tag = "node" THEN print(r.node) ELSE r.tag

Reports(txs) == \E i \in DOMAIN txs : txs[i].class = "Diagnostic"

\* C23: compileOnce() applies, stage by stage and in list order, the
\* registered transformers that declare the stage; with the uppercasing
\* transformer in front of the 'magic' one both outputs contain
\* magicPROPERTY.
C23_DeclaredStagesApplied ==
  (emitResult.state # "none" /\ ~Reports(compiler)) =>
    /\ emitResult.state = "returned"
    /\ emitResult.js = Applied(DeclaredIn(compiler, "before")
                                 \o DeclaredIn(compiler, "after"), source)
    /\ emitResult.dts = Applied(DeclaredIn(compiler, "afterDeclarations"), source)
    /\ compiler = <<UpcasePropertyNamesTransformer, MakePropertyNamesMagicTransformer>> =>
         /\ Contains(emitResult.js, "magicPROPERTY")
         /\ Contains(emitResult.dts, "magicPROPERTY")

\* C24: when a registered transformer declaring the before stage reports a
\* diagnostic for the nodes it visits, compileOnce() returns a result whose
\* diagnostics hold it, with its code and message text, and the emit is not
\* skipped.
C24_ReportedDiagnosticsReturned ==
  (emitResult.state # "none" /\ Reports(compiler)) =>
    /\ emitResult.state = "returned"
    /\ ~emitResult.emitSkipped
    /\ \E i \in DOMAIN emitResult.diagnostics :
         /\ emitResult.diagnostics[i].code = -1337
         /\ emitResult.diagnostics[i].messageText = "Phony!"

-----------------------------------------------------------------------------
(* Properties of the dispatcher.                                           *)

IsPlanned == rewritten.state = "done" /\ delegate.class = "Planned"

\* The labels a plan gives a behaviour to.
Planning(b) == {l \in Labels : delegate.plan[l] = b}

\* The tree without the nodes whose text is in X, and without what is below
\* them.
RECURSIVE Without(_, _), WithoutAll(_, _, _)
WithoutAll(nodes, X, i) ==
  IF i > Len(nodes) THEN << >>
  ELSE (IF nodes[i].node.text \in X THEN << >>
        ELSE <<Bare(Without(nodes[i].node, X))>>) \o WithoutAll(nodes, X, i + 1)

Without(node, X) == [node EXCEPT !.children = WithoutAll(@, X, 1)]

\* The texts of a tree.
RECURSIVE TextsOf(_)
TextsOf(node) ==
  {node.text} \cup UNION {TextsOf(node.children[i].node) : i \in DOMAIN node.children}

\* The node of the source with the given text, NoNode when there is none.
RECURSIVE Find(_, _), FindIn(_, _, _)
FindIn(nodes, l, i) ==
  IF i > Len(nodes) THEN NoNode
  ELSE IF Find(nodes[i].node, l) # NoNode THEN Find(nodes[i].node, l)
  ELSE FindIn(nodes, l, i + 1)

Find(node, l) == IF node.text = l THEN node ELSE FindIn(node.children, l, 1)

\* The statements of the source the plan speaks of.
Statements == {l \in Labels : Find(source, l) # NoNode}

OnlySameOr(b) == \A l \in Statements : delegate.plan[l] \in {"same", b}

\* C25: for a node visitNode returns undefined for, the dispatcher returns
\* undefined and visitNode is called for nothing below the node; when every
\* other node is returned as it is, the rewritten tree is the source without
\* that node and what is below it, every other node in place and in order.
C25_AbsentRemovesSubtree ==
  IsPlanned =>
    /\ \A l \in Statements \cap Planning("absent") :
         /\ visit(delegate, Find(source, l)) = Undefined
         /\ calls(delegate, Find(source, l)) = <<l>>
         /\ \A i \in DOMAIN rewritten.calls :
              rewritten.calls[i] \in TextsOf(Find(source, l)) => rewritten.calls[i] = l
    /\ OnlySameOr("absent") =>
         /\ rewritten.result.tag = "node"
         /\ rewritten.result.node = Without(source, Planning("absent"))

\* The statement B, which has statements of its own, was removed and its
\* two siblings were kept.
C25_BlockRemoved ==
  /\ IsPlanned
  /\ source = BlockTs
  /\ delegate.plan = [NoPlan EXCEPT !["B"] = "absent"]
  /\ rewritten.calls = <<"block", "A", "B", "C">>
  /\ rewritten.result.node = Node("SourceFile", "block", <<Leaf("A"), Leaf("C")>>)

IsFlat(result, n) ==
  /\ result.tag = "array"
  /\ Len(result.items) = n
  /\ \A i \in DOMAIN result.items : result.items[i].tag = "node"

\* The children of a node that are nodes.
WellFormed(node) == \A i \in DOMAIN node.children : node.children[i].tag = "node"

\* C26: for a statement visitNode returns two nodes for, the dispatcher
\* returns a flat array of exactly those two nodes, in order, and the parent
\* has two statements at that position.
C26_FlatSplice ==
  (IsPlanned /\ OnlySameOr("pair")) =>
    \A l \in Statements \cap Planning("pair") :
      /\ IsFlat(visit(delegate, Find(source, l)), 2)
      /\ rewritten.result.tag = "node"
      /\ WellFormed(rewritten.result.node)
      /\ l \in {"A", "B", "C"} =>
           Len(rewritten.result.node.children)
             = Len(source.children) + Cardinality({"A", "B", "C"} \cap Statements
                                                     \cap Planning("pair"))

\* C27: the dispatcher's result for a node is undefined, a bare node, or a
\* flat array of at least two nodes; it is a bare node when visitNode
\* returned one node or an array of one.
C27_BareNode ==
  IsPlanned =>
    \A l \in Statements :
      LET result == visit(delegate, Find(source, l))
      IN /\ \/ result.tag \in {"undefined", "node"}
            \/ \E n \in 2..4 : IsFlat(result, n)
         /\ delegate.plan[l] \in {"same", "single"} => result.tag = "node"

\* transformer.ts, Transformer: a visit that returns its node, after
\* transformChildren(node, context) when `delegating`; transformChildren is
\* ts.visitEachChild with visit, transform is ts.visitNode with visit.
RECURSIVE visitUnchanged(_, _), transformChildren(_, _)
visitUnchanged(node, delegating) ==
  IF delegating THEN Bare(transformChildren(node, delegating)) ELSE Bare(node)

transformChildren(node, delegating) ==
  [node EXCEPT !.children =
     [i \in DOMAIN @ |-> IF @[i].tag = "node"
                         THEN visitUnchanged(@[i].node, delegating) ELSE @[i]]]

transformUnchanged(node, delegating) ==
  LET visited == visitUnchanged(node, delegating)
  IN [tag |-> tsVisitNode(visited), node |-> visited.node]

\* A pass whose visitNode returns every node as it is.
IsIdentity ==
  \/ delegate.class \in {"Identity", "Diagnostic"}
  \/ delegate.class = "Planned" /\ delegate.plan = NoPlan

\* C28: the transform of an identity pass returns the tree it was given, and
\* an emit with any number of identity passes registered prints what an emit
\* without any pass prints.
C28_IdentityIsNeutral ==
  (rewritten.state = "done" /\ IsIdentity) =>
    /\ rewritten.result = [tag |-> "node", node |-> source]
    /\ rewritten.emitted = print(source)
    /\ \A delegating \in BOOLEAN :
         transformUnchanged(source, delegating) = [tag |-> "node", node |-> source]

\* Two identity passes were applied to the tree with nested statements.
C28_TwoIdentityPasses ==
  /\ rewritten.state = "done"
  /\ delegate = IdentityTransformer
  /\ source = BlockTs
  /\ rewritten.passes = 2
  /\ rewritten.emitted = "block{A B{D E} C}"

\* C29: the program of a TransformerContext is the program of the
\* invalidated project when the project is of Build kind, and undefined for
\* the other kinds.
C29_ProgramOfBuildKind ==
  rewritten.state = "done" =>
    rewritten.program =
      IF transformerContext.invalidatedProject.kind = "Build"
      THEN transformerContext.invalidatedProject.getProgram
      ELSE "undefined"

-----------------------------------------------------------------------------
(* Properties of isOutputFile.                                             *)

\* path lies inside directory dir.
Inside(path, dir) == dir # "" /\ startsWith(path, dir \o "/")

\* path is a .ts or .tsx file that is not a declaration file.
IsSourceTs(path) ==
  ~endsWith(path, ".d.ts") /\ (endsWith(path, ".ts") \/ endsWith(path, ".tsx"))

\* path is the output file the options declare, or its declaration file.
IsDeclaredOutFile(path, options) ==
  LET outFile == IF options.outFile # "" THEN options.outFile ELSE options.out
  IN outFile # "" /\ path \in {outFile, replaceExtensionWithDts(outFile)}

\* C33: isOutputFile(path, config) is true only when emit is enabled, path
\* is not a .ts / .tsx source, and path is the declared output file, its
\* declaration file, or lies inside the declared output directory or
\* declaration directory; a path in a sibling directory whose name starts
\* with the name of such a directory is not an output.
C33_OutputOnlyIfDeclared ==
  (classified.state = "answered" /\ classified.result) =>
    LET path == classified.path
        options == classified.config.options
    IN /\ ~options.noEmit
       /\ ~IsSourceTs(path)
       /\ \/ IsDeclaredOutFile(path, options)
          \/ Inside(path, options.outDir)
          \/ Inside(path, options.declarationDir)

-----------------------------------------------------------------------------
(* Properties of the loop of build().                                      *)

CallsOf(f, op) == SelectSeq(f.calls, LAMBDA c : c.op = op)

\* The loop of frame f ended: the query for the next unit returned nothing.
LoopEnded(f) == f.pc = "return" /\ Returned(f.pass)

\* What holds of the passes of build() in every state.
BuildLoopEnds ==
  /\ \A j \in DOMAIN log : (log[j].ev = "Returned" /\ log[j].p \in BuildPasses) =>
       EntriesAfter(j) = {}
  /\ \A d \in DOMAIN stack :
       LET f == stack[d]
       IN /\ Len(CallsOf(f, "next")) = CallsRecorded(f.pass, "next")
          /\ Len(CallsOf(f, "done")) = CallsRecorded(f.pass, "done")
          /\ LoopEnded(f) =>
               /\ f.calls[Len(f.calls)].op = "next"
               /\ Len(CallsOf(f, "next")) = Cardinality(f.yielded) + 1
               /\ Len(CallsOf(f, "done")) = Cardinality(f.yielded)
               /\ NextInvalidatedFrom(1, dirty, f.yielded) = ""
               /\ \A u \in f.yielded :
                    /\ Count(f.pass, u, {"Yield"}) = 1
                    /\ Count(f.pass, u, {"BeforeProject"}) = 1
                    /\ Count(f.pass, u, {"Done"}) = 1
                    /\ Count(f.pass, u, {"AfterProject"}) = 1
               /\ \A u \in Units \ f.yielded : Count(f.pass, u, UnitEvents) = 0
          /\ (f.exc \/ f.pc \in {"thrown", "raise"}) =>
               \E k \in DOMAIN log : log[k].ev \in ThrowEvents

\* C31: a pass of build() ends with the query for the next unit that returns
\* nothing and makes no call of the host afterwards; it has then processed
\* each unit the planner yielded once and no other unit, and the planner has
\* nothing left to yield; a pass leaves by an exception only when a listener
\* or a unit threw; and every build() that started comes to its end.
C31_BuildTerminates ==
  /\ []BuildLoopEnds
  /\ [](Running => ENABLED Pass)
  /\ Running ~> ~Running

\* build() is about to return: it queried the planner three times and built
\* the two units it was given, in the planner's order.
C31_BuiltBothUnits ==
  /\ Len(stack) = 1
  /\ LoopEnded(Top)
  /\ Top.origin = "build"
  /\ Top.yielded = Units
  /\ [i \in DOMAIN Top.calls |-> Top.calls[i].op]
       = <<"next", "done", "next", "done", "next">>

(***************************************************************************)
(* Properties of the try/finally of a unit.                                *)
(***************************************************************************)

\* What a listener records while an emit calls it, without the emit ending.
ListenerActs == {"Called", "Stop"}

\* What pass p records when control leaves the unit it was working on: the
\* next unit, the end of the loop, or the exception leaving consumeBuilder.
LeaveEvents == {"Yield", "AfterSolution", "Returned", "Threw"}

\* The entries pass p recorded after entry i.
LaterOf(i, p) == {k \in DOMAIN log : k > i /\ log[k].p = p}

\* The emit of the BeforeProject at entry i ended with a listener throwing:
\* by itself, or because the build() it had called threw.
BeforeProjectThrew(i) ==
  \E k \in LaterOf(i, log[i].p) :
    /\ log[k].ev \in {"ListenerThrew", "Threw"}
    /\ \A m \in LaterOf(i, log[i].p) : m < k => log[m].ev \in ListenerActs

\* C34: for every unit whose BeforeProject listeners all returned,
\* AfterProject is emitted for that unit exactly once before control leaves
\* the unit, whether done() returned a mapped status, returned an
\* unsupported one, threw, or an outcome listener threw; in watch mode the
\* refresh of the unit's watch set comes right before it, and build() makes
\* no refresh; when a BeforeProject listener throws, the pass records
\* neither done() nor a refresh nor AfterProject: only the exception
\* leaving it.
C34_AfterProjectOncePerEnteredUnit ==
  \A i \in DOMAIN log : log[i].ev = "BeforeProject" =>
    LET p == log[i].p
        u == log[i].u
        leave == {k \in LaterOf(i, p) : log[k].ev \in LeaveEvents}
        emitted == {k \in LaterOf(i, p) : Is(log[k], "AfterProject", p, u)}
    IN /\ Count(p, u, {"AfterProject"}) <= 1
       /\ Count(p, u, {"AfterProject"}) = Cardinality(emitted)
       /\ BeforeProjectThrew(i) =>
            /\ \A k \in LaterOf(i, p) :
                 log[k].ev \in ListenerActs \cup {"ListenerThrew", "Threw"}
            /\ Count(p, u, {"Done", "DoneThrew", "Diagnostic", "Refresh",
                            "AfterProject"} \cup OutcomeEvents) = 0
       /\ (~BeforeProjectThrew(i) /\ leave # {}) =>
            /\ Cardinality(emitted) = 1
            /\ \A a \in emitted :
                 /\ \A k \in leave : a < k
                 /\ p \in WatchPasses => Is(log[a - 1], "Refresh", p, u)
                 /\ p \in BuildPasses => Count(p, u, {"Refresh"}) = 0

\* done() threw for a unit of a watch pass: the refresh and AfterProject
\* followed, and then the exception left the pass.
C34_DoneThrewInWatch ==
  \E i \in DOMAIN log :
    /\ log[i].ev = "DoneThrew"
    /\ log[i].p \in WatchPasses
    /\ i + 3 \in DOMAIN log
    /\ Is(log[i + 1], "Refresh", log[i].p, log[i].u)
    /\ Is(log[i + 2], "AfterProject", log[i].p, log[i].u)
    /\ Is(log[i + 3], "Threw", log[i].p, "")

(***************************************************************************)
(* Properties of the filter of a directory watch.                          *)
(***************************************************************************)

\* The handles the step creates.
NewHandles == DOMAIN handles' \ DOMAIN handles

\* What the callback of directory handle h would decide for fileName if it
\* read the configuration that is on disk now.
FilterOnDisk(h, fileName, u) ==
  DirectoryCallbackBuilds([h EXCEPT !.config = parseConfiguration(u, disk)], fileName)

\* C35: the callback of a directory watch filters with the configuration
\* that was parsed by the refresh which registered the directory: a handle
\* keeps its path and its configuration for ever, a refresh registers
\* nothing for a path the table already holds (so the table's handle for a
\* path stays the same one for as long as stop() has not emptied the table),
\* and, stop() not called, a notification of a directory handle starts a
\* pass exactly when it passes the filter of the handle's own configuration,
\* whatever the configuration on disk has become.
C35_FilterOfFirstRegistration ==
  /\ [](\A i \in DirNotifies :
          ~log[i].x.stopped =>
            (StartsPass(i) <=>
               DirectoryCallbackBuilds(handles[log[i].x.h], log[i].u)))
  /\ [][/\ \A h \in DOMAIN handles :
             /\ h \in DOMAIN handles'
             /\ handles'[h].path = handles[h].path
             /\ handles'[h].kind = handles[h].kind
             /\ handles'[h].config = handles[h].config
             /\ handles'[h].recursive = handles[h].recursive
        /\ \A h \in NewHandles :
             /\ handles'[h].path \notin DOMAIN watchers
             /\ handles'[h].kind = "dir" =>
                  \E i \in NewRefreshes :
                    /\ handles'[h].config = parseConfiguration(log'[i].u, disk)
                    /\ handles'[h].path \in DirsOf(handles'[h].config)
        /\ \A path \in DOMAIN watchers :
             path \in DOMAIN watchers' => watchers'[path] = watchers[path]]_vars

\* The root configuration was rewritten and refreshed (its new directory is
\* watched); the notification of the directory registered for the old
\* configuration was then dropped by the old filter, which the new
\* configuration would have let through.
C35_DroppedByOldFilter ==
  /\ ~stopped
  /\ "/p/lib" \in DOMAIN watchers
  /\ 1 \in DirNotifies
  /\ ~StartsPass(1)
  /\ handles[log[1].x.h].path = "/p"
  /\ handles[log[1].x.h].closed = 0
  /\ handles[log[1].x.h].config # parseConfiguration(RootConfig, disk)
  /\ FilterOnDisk(handles[log[1].x.h], log[1].u, RootConfig)

(***************************************************************************)
(* Properties of build().                                                  *)
(***************************************************************************)

\* consumeBuilder is running for a build(): the caller's, or a listener's.
InBuild == stack # << >> /\ Top.origin = "build"

\* The step is the call of a build().
EntersBuild ==
  /\ Len(stack') = Len(stack) + 1
  /\ stack'[Len(stack')].origin = "build"

\* C36: no step of a build(), from its call to its return or to the
\* exception leaving it, registers or closes a watch or changes the
\* listeners subscribed on the solution (the Diagnostic counter of a watch
\* pass in progress included): they are, when build() returns or throws,
\* what they were when it was called.
C36_BuildLeavesWatchesAndListeners ==
  [][(InBuild \/ EntersBuild) =>
       /\ watchers' = watchers
       /\ handles' = handles
       /\ stopped' = stopped
       /\ subscribed' = subscribed
       /\ listeners' = listeners]_vars

\* A build() called by a listener of a watch pass is about to throw, after
\* done() was called for a unit: the watches of the watch and the counter
\* the watch pass subscribed are in place.
C36_NestedBuildThrows ==
  /\ Len(stack) = 2
  /\ InBuild
  /\ Top.pc = "raise"
  /\ Top.yielded # {}
  /\ stack[1].watch
  /\ stack[1].sub
  /\ subscribed = 1
  /\ RootConfig \in DOMAIN watchers

(***************************************************************************)
(* Properties of a watch() whose initial pass throws.                      *)
(***************************************************************************)

\* An open handle of the table watches path.
Watched(path, table, hs) == path \in DOMAIN table /\ hs[table[path]].closed = 0

\* The units pass p called done() for.
UnitsDone(p) ==
  {log[i].u : i \in {j \in DOMAIN log :
                       log[j].p = p /\ log[j].ev \in {"Done", "DoneThrew"}}}

\* C37: when the initial pass of watch() throws, the exception leaves
\* watch() and no handle is returned, then or later, so stop() is never
\* called; the step closes no watch: the root configuration file, every
\* path a refresh of the pass was made for and every unit done() was called
\* for are watched by an open handle, every handle stays open, and a
\* notification delivered afterwards starts a pass as it would for a
\* watch() that returned (always for a file watch, through its filter for a
\* directory watch).
C37_FailedWatchKeepsWatching ==
  /\ [](watchObj = "failed" =>
          /\ ~stopped
          /\ Watched(RootConfig, watchers, handles)
          /\ \A h \in DOMAIN handles : handles[h].closed = 0
          /\ \A i \in DOMAIN log : log[i].ev = "Notify" =>
               (StartsPass(i) <=>
                  \/ handles[log[i].x.h].kind = "file"
                  \/ DirectoryCallbackBuilds(handles[log[i].x.h], log[i].u)))
  /\ [][/\ (watchObj # "failed" /\ watchObj' = "failed") =>
             /\ Len(stack) = 1 /\ Top.origin = "watch" /\ Top.pc = "raise"
             /\ Threw(1)
             /\ stack' = << >>
             /\ watchers' = watchers
             /\ handles' = handles
             /\ \A i \in DOMAIN log :
                  log[i].ev = "Refresh" => Watched(log[i].u, watchers', handles')
             /\ \A u \in UnitsDone(1) : Watched(u, watchers', handles')
        /\ watchObj = "failed" => watchObj' = "failed"]_vars

\* After a watch() that threw once the referenced unit had been refreshed,
\* the change of a watched file started a pass.
C37_PassAfterFailedWatch ==
  /\ watchObj = "failed"
  /\ Watched(RefConfig, watchers, handles)
  /\ log # << >>
  /\ log[1].ev = "Notify"
  /\ StartsPass(1)
  /\ \E i \in DOMAIN log : log[i].ev = "BeforeProject"

(***************************************************************************)
(* Properties of a watch that sees the files its passes write.             *)
(***************************************************************************)

\* The files the passes write, for the configurations on disk.
EmittedFiles == UNION {OutputFilesOf(u, parseConfiguration(u, disk)) : u \in Units}

\* path is an output the configuration declares: its output file (or the
\* .d.ts of it), or a file of its output or declaration directory.
DeclaredOutputIn(path, config) ==
  /\ config.ok
  /\ \/ IsDeclaredOutFile(path, config.options)
     \/ config.options.outDir # "" /\ Inside(path, config.options.outDir)
     \/ config.options.declarationDir # ""
          /\ Inside(path, config.options.declarationDir)

\* C32 (as stated): no notification of a directory watch that names a file
\* a pass wrote starts a pass, whatever the configuration declares.
C32_OutputsNeverStartPass ==
  \A i \in DirNotifies : log[i].u \in EmittedFiles => ~StartsPass(i)

\* C32: a notification of a directory watch that names a file a pass wrote
\* starts no pass when the file is the declared output file (or its .d.ts)
\* or lies in the declared output or declaration directory of the watch's
\* configuration; the only written file whose notification starts a pass is
\* a declaration file written outside those (next to its source, when no
\* output location is declared); and in every configuration, with a single
\* source change, the passes and notifications come to an end: from some
\* point on no pass runs and no notification waits.
C32_DeclaredOutputsNeverStartPass ==
  /\ [](\A i \in DirNotifies :
          LET f == log[i].u
              config == handles[log[i].x.h].config
          IN f \in EmittedFiles =>
               /\ DeclaredOutputIn(f, config) => ~StartsPass(i)
               /\ StartsPass(i) => endsWith(f, ".d.ts") /\ ~DeclaredOutputIn(f, config))
  /\ [](~Quiescent => ENABLED (PassEmitting \/ Subscribe \/ Unsubscribe \/ Delivers))
  /\ <>[]Quiescent

\* The declaration file written into the declared output directory was
\* notified to the directory watch, which dropped it as an output file: its
\* extension alone would have let it through.
C32_DeclarationInOutDirDropped ==
  /\ 1 \in DirNotifies
  /\ log[1].u = "/p/dist/a.d.ts"
  /\ log[1].u \in EmittedFiles
  /\ isSupportedSourceFile(log[1].u, handles[log[1].x.h].config)
  /\ ~StartsPass(1)
  /\ ~stopped

=============================================================================
